---- MODULE Spec2Model ----
(***************************************************************************)
(* A model of the document-to-cards pipeline of generate-bdd-cards:         *)
(*   - RetryManager.execute            (src/src/utils/logger.ts)            *)
(*   - GoogleDocsClient.readDocument and the local markdown fallback        *)
(*                                     (src/src/modules/gdocs.ts)           *)
(*   - GepetoClient.generateBDDCards   (src/src/modules/gepeto.ts)          *)
(* Text is modelled as a sequence of one-character strings, so that the     *)
(* regular-expression rewrites of the source are computed, not assumed.     *)
(***************************************************************************)
EXTENDS Integers, Sequences, FiniteSets, TLC

VARIABLES
    retry,   \* the RetryManager.execute call in progress
    norm,    \* the text of one document read: its input and what was made of it
    fs,      \* the local files, in directory-listing order
    doc,     \* one command of the GoogleDocsClient: its configuration and progress
    gen,     \* one generateBDDCards call of the GepetoClient
    reply,   \* how the completion service wrote its reply: <<>> or <<description>>
    backoff, \* one computation of the delay slept before a retry
    jira,    \* one createBatchIssues call of the JiraClient
    cli,     \* one command of the command-line program
    pure     \* one application of a function of the pipeline to an input

vars == <<retry, norm, fs, doc, gen, reply, backoff, jira, cli, pure>>

(***************************************************************************)
(* Text helpers                                                            *)
(***************************************************************************)

\* JavaScript String.prototype.startsWith
StartsWith(s, p) ==
    /\ Len(p) <= Len(s)
    /\ \A i \in 1..Len(p) : s[i] = p[i]

\* the substring s[i..j] (1-based, inclusive); empty when j < i
Slice(s, i, j) == [k \in 1..(j - i + 1) |-> s[i + k - 1]]

\* JavaScript String.prototype.includes
Includes(s, p) ==
    \E i \in 0..(Len(s) - Len(p)) : \A k \in 1..Len(p) : s[i + k] = p[k]

UpperLetters == <<"A","B","C","D","E","F","G","H","I","J","K","L","M",
                  "N","O","P","Q","R","S","T","U","V","W","X","Y","Z">>
LowerLetters == <<"a","b","c","d","e","f","g","h","i","j","k","l","m",
                  "n","o","p","q","r","s","t","u","v","w","x","y","z">>

\* JavaScript String.prototype.toLowerCase on the ASCII letters
ToLowerCase(s) ==
    [i \in 1..Len(s) |->
        IF \E k \in 1..26 : UpperLetters[k] = s[i]
        THEN LowerLetters[CHOOSE k \in 1..26 : UpperLetters[k] = s[i]]
        ELSE s[i]]

Digits == <<"0","1","2","3","4","5","6","7","8","9">>
IsDigit(c) == \E k \in 1..10 : Digits[k] = c
DigitValue(c) == (CHOOSE k \in 1..10 : Digits[k] = c) - 1

\* a JavaScript number that may be NaN
Num(n) == [nan |-> FALSE, v |-> n]
NaN == [nan |-> TRUE, v |-> 0]

RECURSIVE DigitsValue(_, _)
DigitsValue(s, acc) ==
    IF s = <<>> \/ ~IsDigit(Head(s)) THEN acc
    ELSE DigitsValue(Tail(s), acc * 10 + DigitValue(Head(s)))

\* JavaScript parseInt(s) for a header value: the leading decimal digits, NaN
\* when there are none
ParseInt(s) ==
    IF s # <<>> /\ IsDigit(s[1]) THEN Num(DigitsValue(s, 0)) ELSE NaN

\* JavaScript Math.max(a, b): NaN when either argument is NaN
MathMax(a, b) ==
    IF a.nan \/ b.nan THEN NaN
    ELSE IF a.v >= b.v THEN a ELSE b

(***************************************************************************)
(* Failures of a remote call (an axios / googleapis error object).         *)
(*   id         which rejection it is (the attempt that raised it), so that *)
(*              "the same error object" can be told from a copy             *)
(*   code       error.code: "" when absent, "403" for the number 403        *)
(*   status     error.response?.status: 0 when there is no response         *)
(*   retryAfter error.response?.headers?.['retry-after']: <<>> when absent  *)
(*   message    error.message                                               *)
(*   wrapped    TRUE for an error made by the retry layer itself (none is)  *)
(***************************************************************************)
NoError == [id |-> 0, code |-> "", status |-> 0, retryAfter |-> <<>>,
            message |-> <<>>, wrapped |-> FALSE]

Msg_Network == <<"N","e","t","w","o","r","k"," ","E","r","r","o","r">>
Msg_PermissionDenied ==
    <<"T","h","e"," ","c","a","l","l","e","r"," ","d","o","e","s"," ","n","o","t",
      " ","h","a","v","e"," ","p","e","r","m","i","s","s","i","o","n",":"," ",
      "P","E","R","M","I","S","S","I","O","N"," ","D","E","N","I","E","D">>
Msg_Forbidden == <<"F","o","r","b","i","d","d","e","n">>
Msg_NotFound == <<"N","o","t"," ","F","o","u","n","d">>
Msg_Unavailable ==
    <<"S","e","r","v","i","c","e"," ","U","n","a","v","a","i","l","a","b","l","e">>

Hdr_Absent == <<>>
Hdr_Two == <<"2">>
Hdr_Thirty == <<"3","0">>
Hdr_Date == <<"W","e","d",","," ","2","1"," ","O","c","t">>

\* the failures the remote services of this model can answer with
ErrorShapes ==
    { [code |-> "", status |-> 400, retryAfter |-> Hdr_Absent, message |-> Msg_NotFound],
      [code |-> "", status |-> 403, retryAfter |-> Hdr_Absent, message |-> Msg_Forbidden],
      [code |-> "403", status |-> 0, retryAfter |-> Hdr_Absent, message |-> Msg_Network],
      [code |-> "", status |-> 404, retryAfter |-> Hdr_Absent, message |-> Msg_NotFound],
      [code |-> "", status |-> 0, retryAfter |-> Hdr_Absent, message |-> Msg_PermissionDenied],
      [code |-> "", status |-> 429, retryAfter |-> Hdr_Thirty, message |-> Msg_Unavailable],
      [code |-> "", status |-> 429, retryAfter |-> Hdr_Date, message |-> Msg_Unavailable],
      [code |-> "", status |-> 500, retryAfter |-> Hdr_Absent, message |-> Msg_Unavailable],
      [code |-> "", status |-> 503, retryAfter |-> Hdr_Absent, message |-> Msg_Forbidden],
      [code |-> "", status |-> 503, retryAfter |-> Hdr_Two, message |-> Msg_Unavailable],
      [code |-> "ECONNRESET", status |-> 0, retryAfter |-> Hdr_Absent, message |-> Msg_Network],
      [code |-> "ETIMEDOUT", status |-> 0, retryAfter |-> Hdr_Absent,
       message |-> Msg_PermissionDenied],
      [code |-> "", status |-> 0, retryAfter |-> Hdr_Absent, message |-> Msg_Network] }

\* the failures the document source answers with: those that carry no
\* Retry-After header
FetchErrorShapes == { shape \in ErrorShapes : shape.retryAfter = Hdr_Absent /\ shape.status # 400 }

MakeError(shape, id) ==
    [id |-> id, code |-> shape.code, status |-> shape.status,
     retryAfter |-> shape.retryAfter, message |-> shape.message, wrapped |-> FALSE]

(***************************************************************************)
(* RetryManager (src/src/utils/logger.ts:93-151)                           *)
(***************************************************************************)
DefaultMaxAttempts == 3
BaseDelay == 1000
MaxDelay == 10000
BackoffFactor == 2

\* the largest maxAttempts option the retry specification passes
MaxAttemptsOpt == 3

\* Math.random() in thousandths: a value of [0, 1)
RandomDraws == {0, 999}

\* a retry condition that also retries every 4xx response
RetryConditionClientErrors(error) ==
    \/ error.code = "ECONNRESET"
    \/ error.code = "ETIMEDOUT"
    \/ error.status >= 400

\* a retry condition that leaves out the rate-limit response
RetryConditionNoRateLimit(error) ==
    \/ error.code = "ECONNRESET"
    \/ error.code = "ETIMEDOUT"
    \/ error.status >= 500

\* DEFAULT_OPTIONS.retryCondition
RetryCondition(error) ==
    \/ error.code = "ECONNRESET"
    \/ error.code = "ETIMEDOUT"
    \/ error.status >= 500
    \/ error.status = 429

RECURSIVE Pow(_, _)
Pow(b, e) == IF e = 0 THEN 1 ELSE b * Pow(b, e - 1)

Min(a, b) == IF a <= b THEN a ELSE b

\* a delay that is never capped at maxDelay
BackoffDelayUncapped(attempt) == BaseDelay * Pow(BackoffFactor, attempt - 1)

\* delay = Math.min(baseDelay * Math.pow(backoffFactor, attempt - 1), maxDelay)
BackoffDelay(attempt) == Min(BaseDelay * Pow(BackoffFactor, attempt - 1), MaxDelay)

\* jitter = Math.random() * 0.1 * delay, in whole milliseconds
Jitter(delay, draw) == (draw * delay) \div 10000

\* finalDelay = retryAfter ? Math.max(parseInt(retryAfter) * 1000, totalDelay)
\*                         : totalDelay
FinalDelay(error, attempt, draw) ==
    LET delay == BackoffDelay(attempt)
        totalDelay == Num(delay + Jitter(delay, draw))
        retryAfter == error.retryAfter
        parsed == ParseInt(retryAfter)
    IN  IF retryAfter # <<>>
        THEN MathMax(IF parsed.nan THEN NaN ELSE Num(parsed.v * 1000), totalDelay)
        ELSE totalDelay

CallEvent(attempt, ok, error) ==
    [kind |-> "call", attempt |-> attempt, ok |-> ok, error |-> error, ms |-> Num(0)]
SleepEvent(attempt, ms) ==
    [kind |-> "sleep", attempt |-> attempt, ok |-> TRUE, error |-> NoError, ms |-> ms]

\* the state of one RetryManager.execute call
\*   status: "calling" (operation in flight), "sleeping", "returned", "thrown"
RetryStart(maxAttempts) ==
    [maxAttempts |-> maxAttempts,
     attempt |-> 1,
     status |-> IF 1 <= maxAttempts THEN "calling" ELSE "thrown",
     lastError |-> NoError,
     thrown |-> NoError,
     events |-> <<>>]

RetryIdle ==
    [maxAttempts |-> 0, attempt |-> 0, status |-> "idle", lastError |-> NoError,
     thrown |-> NoError, events |-> <<>>]

NoData == [title |-> <<>>, text |-> <<>>, normalizedText |-> <<>>]
NoResult == [success |-> FALSE, data |-> NoData, error |-> <<>>]
NoCache == [latest |-> <<>>, snapshots |-> <<>>]

\* an ApiResponse<BDDCard[]>: error is what error.message holds, as the name
\* of the error and the source text its message quotes (none but a
\* SyntaxError's quotes any)
GenFailure(name, text) ==
    [success |-> FALSE, data |-> <<>>, error |-> [name |-> name, text |-> text]]
GenSuccess(cards) ==
    [success |-> TRUE, data |-> cards, error |-> [name |-> "", text |-> <<>>]]

NoGenCache == [rawLatest |-> <<>>, cardsLatest |-> <<>>, snapshots |-> <<>>]

GenIdle ==
    [pc |-> "idle", quotingRuntime |-> FALSE, content |-> <<>>, candidate |-> <<>>,
     repaired |-> <<>>, strictParses |-> 0, repairs |-> 0,
     result |-> GenFailure("", <<>>), cache |-> NoGenCache]

\* no delay computation in progress
BackoffIdle ==
    [stage |-> "idle", attempt |-> 0, error |-> NoError, draw |-> 0,
     finalDelay |-> Num(0), slept |-> 0]

\* no createBatchIssues call in progress
JiraIdle ==
    [pc |-> "idle", issues |-> 0, i |-> 0, results |-> <<>>, errors |-> <<>>,
     log |-> <<>>, server |-> <<>>,
     result |-> [success |-> FALSE, data |-> <<>>, error |-> 0]]

\* no command running
CliIdle ==
    [pc |-> "idle", command |-> "none", appMode |-> "", live |-> FALSE, dryRun |-> FALSE,
     mode |-> "", at |-> 0, stages |-> <<>>, results |-> <<>>, requests |-> {},
     exitCode |-> 0]

\* no function application in progress
PureIdle == [stage |-> "idle", input |-> <<>>, output |-> <<>>]

DocIdle ==
    [pc |-> "idle", command |-> "none", authConfigured |-> FALSE,
     localMarkdownPath |-> <<>>, result |-> NoResult,
     fallbackRuns |-> 0, scans |-> 0, reads |-> <<>>, cache |-> NoCache]

\* return await operation()  -- the operation resolved
ExecuteResolved(r) ==
    [r EXCEPT !.status = "returned",
              !.events = Append(@, CallEvent(r.attempt, TRUE, NoError))]

\* a catch block that gives up one attempt early
ExecuteRejectedEarly(r, error, draw) ==
    LET called == Append(r.events, CallEvent(r.attempt, FALSE, error))
    IN  IF r.attempt + 1 >= r.maxAttempts \/ ~RetryCondition(error)
        THEN [r EXCEPT !.lastError = error, !.status = "thrown",
                       !.thrown = error, !.events = called]
        ELSE [r EXCEPT !.lastError = error, !.status = "sleeping",
                       !.events = Append(called,
                                    SleepEvent(r.attempt, FinalDelay(error, r.attempt, draw)))]

\* a catch block that retries whatever the retry condition says
ExecuteRejectedIgnoringCondition(r, error, draw) ==
    LET called == Append(r.events, CallEvent(r.attempt, FALSE, error))
    IN  IF r.attempt = r.maxAttempts
        THEN [r EXCEPT !.lastError = error, !.status = "thrown",
                       !.thrown = error, !.events = called]
        ELSE [r EXCEPT !.lastError = error, !.status = "sleeping",
                       !.events = Append(called,
                                    SleepEvent(r.attempt, FinalDelay(error, r.attempt, draw)))]

\* a catch block that sleeps after the last attempt too
ExecuteRejectedSleepsAfterLast(r, error, draw) ==
    LET called == Append(r.events, CallEvent(r.attempt, FALSE, error))
    IN  IF ~RetryCondition(error)
        THEN [r EXCEPT !.lastError = error, !.status = "thrown",
                       !.thrown = error, !.events = called]
        ELSE [r EXCEPT !.lastError = error, !.status = "sleeping",
                       !.events = Append(called,
                                    SleepEvent(r.attempt, FinalDelay(error, r.attempt, draw)))]

\* the catch block: the operation rejected with `error`
ExecuteRejected(r, error, draw) ==
    LET called == Append(r.events, CallEvent(r.attempt, FALSE, error))
    IN  IF r.attempt = r.maxAttempts \/ ~RetryCondition(error)
        THEN [r EXCEPT !.lastError = error, !.status = "thrown",
                       !.thrown = error, !.events = called]
        ELSE [r EXCEPT !.lastError = error, !.status = "sleeping",
                       !.events = Append(called,
                                    SleepEvent(r.attempt, FinalDelay(error, r.attempt, draw)))]

\* the sleep's timer fired: attempt++, then the loop test, then the next call
\* or `throw lastError` (logger.ts:145)
ExecuteWoke(r) ==
    IF r.attempt + 1 <= r.maxAttempts
    THEN [r EXCEPT !.attempt = r.attempt + 1, !.status = "calling"]
    ELSE [r EXCEPT !.attempt = r.attempt + 1, !.status = "thrown",
                   !.thrown = r.lastError]

(***************************************************************************)
(* Text normalisation (src/src/modules/gdocs.ts:204-219, 401-427)          *)
(***************************************************************************)
\* what the regular expression class \s and String.prototype.trim() take for
\* white space, among the characters of this model
WhiteSpace == {" ", "\t", "\n", "\r"}
\* the characters `.` does not match and `^`/`$` (flag m) anchor at
LineTerminators == {"\n", "\r"}
Blanks == {" ", "\t"}

\* the number of leading characters of s that belong to set
RunLen(s, set) ==
    IF \A i \in 1..Len(s) : s[i] \in set THEN Len(s)
    ELSE (CHOOSE i \in 1..Len(s) : s[i] \notin set /\ \A j \in 1..(i - 1) : s[j] \in set) - 1

Drop(s, n) == Slice(s, n + 1, Len(s))

Range(s) == { s[i] : i \in 1..Len(s) }

\* normalized.replace(/\n{3,}/g, '\n\n')
RECURSIVE CollapseNewlines(_)
CollapseNewlines(s) ==
    IF s = <<>> THEN <<>>
    ELSE IF Head(s) = "\n"
         THEN LET n == RunLen(s, {"\n"})
              IN  (IF n >= 3 THEN <<"\n", "\n">> ELSE Slice(s, 1, n))
                  \o CollapseNewlines(Drop(s, n))
         ELSE <<Head(s)>> \o CollapseNewlines(Tail(s))

\* normalized.replace(/[ \t]+/g, ' ')
RECURSIVE CollapseBlanks(_)
CollapseBlanks(s) ==
    IF s = <<>> THEN <<>>
    ELSE IF Head(s) \in Blanks
         THEN <<" ">> \o CollapseBlanks(Drop(s, RunLen(s, Blanks)))
         ELSE <<Head(s)>> \o CollapseBlanks(Tail(s))

\* normalized.replace(/\n[ \t]+/g, '\n')
RECURSIVE StripAfterNewline(_)
StripAfterNewline(s) ==
    IF s = <<>> THEN <<>>
    ELSE IF Head(s) = "\n"
         THEN <<"\n">> \o StripAfterNewline(Drop(Tail(s), RunLen(Tail(s), Blanks)))
         ELSE <<Head(s)>> \o StripAfterNewline(Tail(s))

Reverse(s) == [i \in 1..Len(s) |-> s[Len(s) + 1 - i]]

\* String.prototype.trim()
Trim(s) ==
    LET a == RunLen(s, WhiteSpace)
        b == RunLen(Reverse(s), WhiteSpace)
    IN  IF a = Len(s) THEN <<>> ELSE Slice(s, a + 1, Len(s) - b)

\* the three whitespace rewrites and the trim shared by both normalizers
CleanWhitespace(text) ==
    Trim(StripAfterNewline(CollapseBlanks(CollapseNewlines(text))))

\* `# ${title}`
TitleHeading(title) == <<"#", " ">> \o title

\* GoogleDocsClient.normalizeContent: the heading is always prepended
NormalizeContent(title, text) ==
    TitleHeading(title) \o <<"\n", "\n">> \o CleanWhitespace(text)

\* GoogleDocsClient.normalizeMarkdownContent: the heading is prepended unless
\* the cleaned text startsWith it
NormalizeMarkdownContent(content, title) ==
    LET normalized == CleanWhitespace(content)
    IN  IF ~StartsWith(normalized, TitleHeading(title))
        THEN TitleHeading(title) \o <<"\n", "\n">> \o normalized
        ELSE normalized

\* is position p of s the start of a line (regular expression ^ with flag m)
LineStart(s, p) == p = 1 \/ s[p - 1] \in LineTerminators

\* the end of the line that holds position p: the last index before the next
\* line terminator
LineEnd(s, p) ==
    IF \A i \in p..Len(s) : s[i] \notin LineTerminators THEN Len(s)
    ELSE (CHOOSE i \in p..Len(s) :
            s[i] \in LineTerminators /\ \A j \in p..(i - 1) : s[j] \notin LineTerminators) - 1

\* the lengths k of white space that \s+ can take after the '#' at p so that
\* (.+)$ still matches: s[p+1..p+k] is white space and s[p+k+1] starts a
\* non-empty run of non-terminators
HeadingSpaceLens(s, p) ==
    { k \in 1..(Len(s) - p - 1) :
        /\ \A i \in (p + 1)..(p + k) : s[i] \in WhiteSpace
        /\ s[p + k + 1] \notin LineTerminators }

\* does /^#\s+(.+)$/m match at position p
HeadingMatchAt(s, p) ==
    /\ LineStart(s, p)
    /\ s[p] = "#"
    /\ HeadingSpaceLens(s, p) # {}

Max(set) == CHOOSE x \in set : \A y \in set : y <= x
MinOf(set) == CHOOSE x \in set : \A y \in set : x <= y

\* capture group 1 of the match at p: \s+ is greedy, then .+ runs to the end
\* of the line
HeadingCapture(s, p) ==
    LET k == Max(HeadingSpaceLens(s, p))
    IN  Slice(s, p + k + 1, LineEnd(s, p + k + 1))

\* GoogleDocsClient.extractTitleFromMarkdown: the trimmed capture of the first
\* match, <<>> standing for both null and the empty string (both falsy)
ExtractTitleFromMarkdown(content) ==
    LET starts == { p \in 1..Len(content) : HeadingMatchAt(content, p) }
    IN  IF starts = {} THEN <<>>
        ELSE Trim(HeadingCapture(content, MinOf(starts)))

Ext_md == <<".", "m", "d">>

EndsWith(s, p) ==
    /\ Len(p) <= Len(s)
    /\ \A i \in 1..Len(p) : s[Len(s) - Len(p) + i] = p[i]

\* path.basename(name, '.md') of a file name: the suffix is removed when the
\* name ends with it and is longer than it
Basename(name) ==
    IF EndsWith(name, Ext_md) /\ Len(name) > Len(Ext_md)
    THEN Slice(name, 1, Len(name) - Len(Ext_md))
    ELSE name

\* document.title || 'Untitled Document'
Untitled == <<"U","n","t","i","t","l","e","d"," ","D","o","c","u","m","e","n","t">>
DocumentTitle(title) == IF title = <<>> THEN Untitled ELSE title

\* the data of a successful remote read (gdocs.ts:83-99), given what
\* extractContent returned
RemoteReadData(content) ==
    [title |-> content.title,
     text |-> content.text,
     normalizedText |-> NormalizeContent(content.title, content.text)]

\* the data of a successful local read (gdocs.ts:332-349) of the file `name`
\* holding `content`
LocalReadData(name, content) ==
    LET extracted == ExtractTitleFromMarkdown(content)
        title == IF extracted # <<>> THEN extracted ELSE Basename(name)
    IN  [title |-> title,
         text |-> content,
         normalizedText |-> NormalizeMarkdownContent(content, title)]

(***************************************************************************)
(* Specification of the text of a document read: a remote read of a        *)
(* document whose flattened text is `text`, or a local read of a file, and  *)
(* then the same normalizer applied once more to its own output.           *)
(***************************************************************************)
MaxTextLen == 5
TextAlphabet == {"a", "#", " ", "\n", "\t"}

RECURSIVE TextsOfLen(_)
TextsOfLen(n) ==
    IF n = 0 THEN {<<>>}
    ELSE { <<c>> \o t : c \in TextAlphabet, t \in TextsOfLen(n - 1) }

Texts == UNION { TextsOfLen(n) : n \in 0..MaxTextLen }

RemoteTitles == { <<>>, <<"a">>, <<"a", " ", "a">> }
LocalNames == { <<"a", ".", "m", "d">>, <<"a", ".", "M", "D">> }

NormIdle == [stage |-> "idle", kind |-> "none", name |-> <<>>, input |-> <<>>,
             data |-> [title |-> <<>>, text |-> <<>>, normalizedText |-> <<>>],
             again |-> <<>>]

NormInit ==
    /\ pure = PureIdle
    /\ retry = RetryIdle
    /\ fs = <<>>
    /\ doc = DocIdle
    /\ gen = GenIdle
    /\ reply = <<>>
    /\ backoff = BackoffIdle
    /\ jira = JiraIdle
    /\ cli = CliIdle
    /\ \E text \in Texts :
          norm = [NormIdle EXCEPT !.stage = "input", !.input = text]

\* readDocument, the fetch having succeeded with a document of this title
\* whose body flattens to norm.input
ReadRemoteSucceeds ==
    /\ norm.stage = "input"
    /\ \E title \in RemoteTitles :
          norm' = [norm EXCEPT
                     !.stage = "read", !.kind = "remote",
                     !.data = RemoteReadData([title |-> DocumentTitle(title),
                                              text |-> norm.input])]
    /\ UNCHANGED <<retry, fs, doc, gen, reply, backoff, jira, cli, pure>>

\* fallbackToLocalMarkdown, the selected file holding norm.input
ReadLocalSucceeds ==
    /\ norm.stage = "input"
    /\ \E name \in LocalNames :
          norm' = [norm EXCEPT
                     !.stage = "read", !.kind = "local", !.name = name,
                     !.data = LocalReadData(name, norm.input)]
    /\ UNCHANGED <<retry, fs, doc, gen, reply, backoff, jira, cli, pure>>

\* the normalizer of the read applied to its own output, with the same title
NormalizeAgain ==
    /\ norm.stage = "read"
    /\ norm' = [norm EXCEPT
                  !.stage = "twice",
                  !.again = IF norm.kind = "remote"
                            THEN NormalizeContent(norm.data.title, norm.data.normalizedText)
                            ELSE NormalizeMarkdownContent(norm.data.normalizedText,
                                                          norm.data.title)]
    /\ UNCHANGED <<retry, fs, doc, gen, reply, backoff, jira, cli, pure>>

NormNext == ReadRemoteSucceeds \/ ReadLocalSucceeds \/ NormalizeAgain

SpecNorm == NormInit /\ [][NormNext]_vars

(***************************************************************************)
(* Specification of one RetryManager.execute call                          *)
(***************************************************************************)
RetryInit ==
    /\ pure = PureIdle
    /\ \E m \in 1..MaxAttemptsOpt : retry = RetryStart(m)
    /\ norm = NormIdle
    /\ fs = <<>>
    /\ doc = DocIdle
    /\ gen = GenIdle
    /\ reply = <<>>
    /\ backoff = BackoffIdle
    /\ jira = JiraIdle
    /\ cli = CliIdle

RetryOperationResolves ==
    /\ retry.status = "calling"
    /\ retry' = ExecuteResolved(retry)
    /\ UNCHANGED <<norm, fs, doc, gen, reply, backoff, jira, cli, pure>>

RetryOperationRejects ==
    /\ retry.status = "calling"
    /\ \E shape \in ErrorShapes, draw \in RandomDraws :
          retry' = ExecuteRejected(retry, MakeError(shape, retry.attempt), draw)
    /\ UNCHANGED <<norm, fs, doc, gen, reply, backoff, jira, cli, pure>>

RetrySleepEnds ==
    /\ retry.status = "sleeping"
    /\ retry' = ExecuteWoke(retry)
    /\ UNCHANGED <<norm, fs, doc, gen, reply, backoff, jira, cli, pure>>

RetryNext == RetryOperationResolves \/ RetryOperationRejects \/ RetrySleepEnds

SpecRetry == RetryInit /\ [][RetryNext]_vars

\* the same call when every invocation of the operation settles and every
\* timer of sleep() fires (logger.ts:110, 141, 148-150)
SpecRetryFair ==
    /\ SpecRetry
    /\ WF_vars(RetryOperationResolves \/ RetryOperationRejects)
    /\ WF_vars(RetrySleepEnds)

(***************************************************************************)
(* The delay computation of the catch block on its own                     *)
(* (src/src/utils/logger.ts:126-141, 148-150): one retried failure of      *)
(* attempt `attempt`, one Math.random() draw, the finalDelay computed from *)
(* them and the time the timer of sleep() then runs.  maxAttempts is an    *)
(* option, so the failed attempt ranges beyond the default's two.          *)
(***************************************************************************)
\* the largest failed attempt whose delay is computed
MaxBackoffAttempt == 6

\* Math.random() in thousandths
BackoffDraws == {0, 500, 999}

\* the failures the catch block computes a delay for: the retried ones
RetriedShapes == { shape \in ErrorShapes : RetryCondition(MakeError(shape, 1)) }

\* setTimeout(resolve, ms): the timer runs ms milliseconds, and 1 millisecond
\* when ms is NaN or below 1 (no delay of this model exceeds the timer's
\* maximum)
SleepDuration(ms) == IF ms.nan \/ ms.v < 1 THEN 1 ELSE ms.v

BackoffInit ==
    /\ pure = PureIdle
    /\ \E attempt \in 1..MaxBackoffAttempt, shape \in RetriedShapes, draw \in BackoffDraws :
          backoff = [stage |-> "caught", attempt |-> attempt,
                     error |-> MakeError(shape, attempt), draw |-> draw,
                     finalDelay |-> Num(0), slept |-> 0]
    /\ retry = RetryIdle
    /\ norm = NormIdle
    /\ fs = {}
    /\ doc = DocIdle
    /\ gen = GenIdle
    /\ reply = <<>>
    /\ jira = JiraIdle
    /\ cli = CliIdle

\* logger.ts:126-138: delay, jitter, totalDelay, finalDelay
BackoffComputes ==
    /\ backoff.stage = "caught"
    /\ backoff' = [backoff EXCEPT
                      !.stage = "computed",
                      !.finalDelay = FinalDelay(backoff.error, backoff.attempt, backoff.draw)]
    /\ UNCHANGED <<retry, norm, fs, doc, gen, reply, jira, cli, pure>>

\* logger.ts:141, 148-150: await this.sleep(finalDelay) resolves
BackoffSleeps ==
    /\ backoff.stage = "computed"
    /\ backoff' = [backoff EXCEPT !.stage = "slept",
                                  !.slept = SleepDuration(backoff.finalDelay)]
    /\ UNCHANGED <<retry, norm, fs, doc, gen, reply, jira, cli, pure>>

BackoffNext == BackoffComputes \/ BackoffSleeps

SpecBackoff == BackoffInit /\ [][BackoffNext]_vars

(***************************************************************************)
(* The document tree walker: extractContent / processElement               *)
(* (src/src/modules/gdocs.ts:116-202).  A node is a record that holds the   *)
(* fields it has: textRun, paragraph, table, list, elements.               *)
(***************************************************************************)
Has(node, f) == f \in DOMAIN node

TextRun(content) == [textRun |-> [content |-> content]]
Paragraph(elements, style, bullet) ==
    [paragraph |-> [elements |-> elements, namedStyleType |-> style, bullet |-> bullet]]
Table(rows) == [table |-> [tableRows |-> rows]]
ListNode(levels) == [list |-> [nestingLevels |-> levels]]
Container(elements) == [elements |-> elements]

Style_None == <<>>
Style_Normal == <<"N","O","R","M","A","L","_","T","E","X","T">>
Style_Heading1 == <<"H","E","A","D","I","N","G","_","1">>
Style_Heading2 == <<"H","E","A","D","I","N","G","_","2">>
HeadingPrefix == <<"H","E","A","D","I","N","G","_">>

\* '#'.repeat(n); repeat(NaN) is the empty string
Repeat(c, n) == [i \in 1..n |-> c]

\* a heading marker of one '#' whatever the level
HeadingMarkerSingle(style) ==
    IF StartsWith(style, HeadingPrefix) THEN <<"#", " ">> ELSE <<>>

\* the heading marker of a paragraph style: '#'.repeat(level) + ' ' when the
\* style starts with HEADING_, with level = parseInt of what follows
HeadingMarker(style) ==
    IF StartsWith(style, HeadingPrefix)
    THEN LET level == ParseInt(Drop(style, Len(HeadingPrefix)))
         IN  Repeat("#", IF level.nan THEN 0 ELSE level.v) \o <<" ">>
    ELSE <<>>

RECURSIVE ProcessElement(_), ProcessAll(_), ProcessRow(_), ProcessRows(_)

\* elements.map(processElement).join('')
ProcessAll(elements) ==
    IF elements = <<>> THEN <<>>
    ELSE ProcessElement(Head(elements)) \o ProcessAll(Tail(elements))

\* row.tableCells.map(cell => ...trim()).join(' | ')
ProcessRow(cells) ==
    IF cells = <<>> THEN <<>>
    ELSE Trim(ProcessAll(Head(cells).content))
         \o (IF Len(cells) > 1 THEN <<" ", "|", " ">> \o ProcessRow(Tail(cells)) ELSE <<>>)

\* one '| ... |\n' line per row
ProcessRows(rows) ==
    IF rows = <<>> THEN <<>>
    ELSE <<"|", " ">> \o ProcessRow(Head(rows).tableCells) \o <<" ", "|", "\n">>
         \o ProcessRows(Tail(rows))

ProcessElement(element) ==
    LET textPart ==
            IF Has(element, "textRun") THEN element.textRun.content ELSE <<>>
        paragraphPart ==
            IF Has(element, "paragraph")
            THEN LET paragraph == element.paragraph
                     joined == ProcessAll(paragraph.elements)
                     headed == HeadingMarker(paragraph.namedStyleType) \o joined
                     bulleted == IF paragraph.bullet THEN <<"-", " ">> \o headed ELSE headed
                 IN  bulleted \o <<"\n">>
            ELSE <<>>
        tablePart ==
            IF Has(element, "table")
            THEN ProcessRows(element.table.tableRows) \o <<"\n">>
            ELSE <<>>
        listPart ==
            IF Has(element, "list") /\ element.list.nestingLevels # <<>>
            THEN Repeat(" ", 2 * element.list.nestingLevels[1]) \o <<"-", " ">>
            ELSE <<>>
        childPart ==
            IF Has(element, "elements") THEN ProcessAll(element.elements) ELSE <<>>
    IN  textPart \o paragraphPart \o tablePart \o listPart \o childPart

\* extractContent(document)
ExtractContent(document) ==
    [title |-> DocumentTitle(document.title), text |-> ProcessAll(document.body)]

Txt_Overview == <<"O","v","e","r","v","i","e","w">>
Txt_Intro == <<"I","n","t","r","o">>
Txt_cellA == <<" ","c","e","l","l","A","\n">>
Txt_cellB == <<"c","e","l","l","B","\n">>

\* the documents the remote document source of this model can return
Documents ==
    { [title |-> <<"D","o","c">>,
       body |-> << Paragraph(<<TextRun(Txt_Overview)>>, Style_Heading2, FALSE),
                   Paragraph(<<TextRun(Txt_Intro)>>, Style_Normal, TRUE) >>],
      [title |-> <<>>,
       body |-> << Table(<< [tableCells |-> << [content |-> <<Paragraph(<<TextRun(Txt_cellA)>>,
                                                                         Style_None, FALSE)>>],
                                               [content |-> <<Paragraph(<<TextRun(Txt_cellB)>>,
                                                                         Style_None, FALSE)>>] >>] >>),
                   ListNode(<<1>>),
                   Container(<<TextRun(Txt_Intro)>>) >>],
      [title |-> <<"D","o","c">>, body |-> <<>>] }

(***************************************************************************)
(* The walker on its own: processElement applied to one table or one       *)
(* paragraph node (src/src/modules/gdocs.ts:120-191).                      *)
(***************************************************************************)
\* the largest table of this specification
MaxRows == 2
MaxCols == 2
\* the deepest heading style, HEADING_6
MaxHeading == 6

DigitChar(n) == <<"0", "1", "2", "3", "4", "5", "6", "7", "8", "9">>[n + 1]
Style_Heading(n) == HeadingPrefix \o <<DigitChar(n)>>

\* table cells: no content, one paragraph, two paragraphs
Cell_empty == [content |-> <<>>]
Cell_one == [content |-> <<Paragraph(<<TextRun(Txt_cellA)>>, Style_None, FALSE)>>]
Cell_two ==
    [content |-> <<Paragraph(<<TextRun(Txt_cellA)>>, Style_None, FALSE),
                   Paragraph(<<TextRun(Txt_cellB)>>, Style_None, FALSE)>>]
Cells == {Cell_empty, Cell_one, Cell_two}

SeqsUpTo(S, n) == UNION { [1..k -> S] : k \in 1..n }

TableRows == { [tableCells |-> cells] : cells \in SeqsUpTo(Cells, MaxCols) }
TableNodes == { Table(rows) : rows \in SeqsUpTo(TableRows, MaxRows) }

\* the children of a paragraph: its text runs
RunLists == { <<>>, <<TextRun(Txt_Overview)>>, <<TextRun(Txt_Intro), TextRun(Txt_cellB)>> }
ParagraphStyles == {Style_None, Style_Normal} \cup { Style_Heading(n) : n \in 1..MaxHeading }
ParagraphNodes ==
    { Paragraph(runs, style, bullet) :
        runs \in RunLists, style \in ParagraphStyles, bullet \in BOOLEAN }

WalkInit ==
    /\ \E node \in TableNodes \cup ParagraphNodes :
          pure = [stage |-> "walk", input |-> node, output |-> <<>>]
    /\ retry = RetryIdle
    /\ norm = NormIdle
    /\ fs = {}
    /\ doc = DocIdle
    /\ gen = GenIdle
    /\ reply = <<>>
    /\ backoff = BackoffIdle
    /\ jira = JiraIdle
    /\ cli = CliIdle

\* processElement(element)
WalkFlattens ==
    /\ pure.stage = "walk"
    /\ pure' = [pure EXCEPT !.stage = "walked", !.output = ProcessElement(pure.input)]
    /\ UNCHANGED <<retry, norm, fs, doc, gen, reply, backoff, jira, cli>>

WalkNext == WalkFlattens

SpecWalk == WalkInit /\ [][WalkNext]_vars

(***************************************************************************)
(* GoogleDocsClient: the permission heuristic, the local fallback locator  *)
(* and readDocument (src/src/modules/gdocs.ts)                             *)
(***************************************************************************)
Needle_PermissionDenied ==
    <<"p","e","r","m","i","s","s","i","o","n"," ","d","e","n","i","e","d">>
Needle_AccessDenied == <<"a","c","c","e","s","s"," ","d","e","n","i","e","d">>
Needle_Forbidden == <<"f","o","r","b","i","d","d","e","n">>
Needle_Insufficient ==
    <<"i","n","s","u","f","f","i","c","i","e","n","t"," ","p","e","r","m","i","s","s","i","o","n","s">>

\* a permission heuristic that takes every 4xx response for a permission error
IsPermissionErrorAny4xx(error) ==
    \/ error.status >= 400 /\ error.status < 500
    \/ error.code = "403"

\* GoogleDocsClient.isPermissionError
IsPermissionError(error) ==
    \/ error.status = 403
    \/ error.code = "403"
    \/ Includes(ToLowerCase(error.message), Needle_PermissionDenied)
    \/ Includes(ToLowerCase(error.message), Needle_AccessDenied)
    \/ Includes(ToLowerCase(error.message), Needle_Forbidden)
    \/ Includes(ToLowerCase(error.message), Needle_Insufficient)

\* error instanceof Error ? error.message : 'Unknown error'
Failure(message) == [success |-> FALSE, data |-> NoData, error |-> message]
Success(data) == [success |-> TRUE, data |-> data, error |-> <<>>]

Msg_NoLocalFiles ==
    <<"N","o"," ","l","o","c","a","l"," ","m","a","r","k","d","o","w","n"," ",
      "f","i","l","e","s"," ","f","o","u","n","d">>
Msg_NoAuth ==
    <<"N","o"," ","a","u","t","h","e","n","t","i","c","a","t","i","o","n"," ",
      "m","e","t","h","o","d"," ","p","r","o","v","i","d","e","d">>

Dir_docs == <<"d","o","c","s">>
Dir_documents == <<"d","o","c","u","m","e","n","t","s">>
Dir_markdown == <<"m","a","r","k","d","o","w","n">>
Dir_content == <<"c","o","n","t","e","n","t">>
Dir_cache == <<".","c","a","c","h","e">>
Dir_node_modules == <<"n","o","d","e","_","m","o","d","u","l","e","s">>

\* searchPaths of fallbackToLocalMarkdown, each as its directory components
SearchPaths ==
    << <<>>, <<Dir_docs>>, <<Dir_documents>>, <<Dir_markdown>>, <<Dir_content>>,
       <<Dir_cache>> >>

\* an existsSync that finds no file
FileExistsNever(files, path) == FALSE

\* fs.existsSync of a file path
FileExists(files, path) ==
    \E i \in 1..Len(files) : files[i].dir = path.dir /\ files[i].name = path.name

\* fs.existsSync of a directory: it holds a file somewhere below it
DirExists(files, dir) ==
    dir = <<>> \/ \E i \in 1..Len(files) : StartsWith(files[i].dir, dir)

FileAt(files, path) ==
    files[CHOOSE i \in 1..Len(files) : files[i].dir = path.dir /\ files[i].name = path.name]

\* path.extname: from the last '.', unless the name has none or starts with it
ExtName(name) ==
    LET dots == { i \in 1..Len(name) : name[i] = "." }
    IN  IF dots = {} \/ Max(dots) = 1 THEN <<>>
        ELSE Slice(name, Max(dots), Len(name))

\* a scan that skips no directory
SkippedDirNever(item) == FALSE

\* item.startsWith('.') || item === 'node_modules'
SkippedDir(item) == StartsWith(item, <<".">>) \/ item = Dir_node_modules

\* is file f collected by scanDirectoryForMarkdown(dirPath): it lies below
\* dirPath, no directory on the way down is skipped, and its extension is .md
Collected(f, dirPath) ==
    /\ StartsWith(f.dir, dirPath)
    /\ \A i \in (Len(dirPath) + 1)..Len(f.dir) : ~SkippedDir(f.dir[i])
    /\ ToLowerCase(ExtName(f.name)) = Ext_md

RECURSIVE SelectSeq2(_, _)
SelectSeq2(files, dirPath) ==
    IF files = <<>> THEN <<>>
    ELSE (IF Collected(Head(files), dirPath) THEN <<Head(files)>> ELSE <<>>)
         \o SelectSeq2(Tail(files), dirPath)

\* scanDirectoryForMarkdown(dirPath), in listing order
ScanDirectoryForMarkdown(files, dirPath) == SelectSeq2(files, dirPath)

RECURSIVE ScanAll(_, _)
ScanAll(files, paths) ==
    IF paths = <<>> THEN <<>>
    ELSE (IF DirExists(files, Head(paths))
          THEN ScanDirectoryForMarkdown(files, Head(paths)) ELSE <<>>)
         \o ScanAll(files, Tail(paths))

\* insert f into a sequence sorted by descending mtime, after its equals
RECURSIVE InsertByMtime(_, _)
InsertByMtime(sorted, f) ==
    IF sorted = <<>> THEN <<f>>
    ELSE IF Head(sorted).mtime >= f.mtime
         THEN <<Head(sorted)>> \o InsertByMtime(Tail(sorted), f)
         ELSE <<f>> \o sorted

RECURSIVE SortByMtime(_, _)
SortByMtime(list, acc) ==
    IF list = <<>> THEN acc
    ELSE SortByMtime(Tail(list), InsertByMtime(acc, Head(list)))

\* a findMarkdownFiles that returns the files in the order they were found
FindMarkdownFilesUnsorted(files) == ScanAll(files, SearchPaths)

\* findMarkdownFiles(searchPaths): a stable sort, most recent first
FindMarkdownFiles(files) == SortByMtime(ScanAll(files, SearchPaths), <<>>)

\* saveToCache(content, normalizedText): a timestamped snapshot and the
\* overwritten source_doc_latest.md
SaveToCache(cache, normalizedText) ==
    [latest |-> normalizedText, snapshots |-> Append(cache.snapshots, normalizedText)]

\* GoogleDocsClient.fallbackToLocalMarkdown, as the new state of the client
FallbackToLocalMarkdown(d, files) ==
    LET configured == d.localMarkdownPath # <<>>
        explicit == configured /\ FileExists(files, d.localMarkdownPath[1])
        markdownFiles == FindMarkdownFiles(files)
        ran == [d EXCEPT !.pc = "done", !.fallbackRuns = @ + 1,
                         !.scans = IF explicit THEN @ ELSE @ + 1]
    IN  IF ~explicit /\ markdownFiles = <<>>
        THEN [ran EXCEPT !.result = Failure(Msg_NoLocalFiles)]
        ELSE LET selectedFile == IF explicit THEN FileAt(files, d.localMarkdownPath[1])
                                 ELSE markdownFiles[1]
                 data == LocalReadData(selectedFile.name, selectedFile.content)
             IN  [ran EXCEPT !.reads = Append(@, [dir |-> selectedFile.dir,
                                                  name |-> selectedFile.name]),
                             !.cache = SaveToCache(@, data.normalizedText),
                             !.result = Success(data)]

\* readDocument after the fetch resolved with `document` (gdocs.ts:83-100)
ReadDocumentResolved(d, document) ==
    LET data == RemoteReadData(ExtractContent(document))
    IN  [d EXCEPT !.pc = "done",
                  !.cache = SaveToCache(@, data.normalizedText),
                  !.result = Success(data)]

\* readDocument's catch block (gdocs.ts:101-113)
ReadDocumentCaught(d, files, error) ==
    IF IsPermissionError(error)
    THEN FallbackToLocalMarkdown(d, files)
    ELSE [d EXCEPT !.pc = "done", !.result = Failure(error.message)]

(***************************************************************************)
(* Specification of one GoogleDocsClient command: gdocs:read / workflow    *)
(* (readDocument) or markdown:read (fallbackToLocalMarkdown directly)      *)
(***************************************************************************)
File_notes ==
    [dir |-> <<>>, name |-> <<"n",".","m","d">>, mtime |-> 1,
     content |-> <<"#"," ","T"," ","\n","a">>]
File_spec ==
    [dir |-> <<Dir_docs>>, name |-> <<"s",".","M","D">>, mtime |-> 2,
     content |-> <<"b"," "," ","c">>]
File_vendor ==
    [dir |-> <<Dir_node_modules>>, name |-> <<"v",".","m","d">>, mtime |-> 3,
     content |-> <<"#"," ","V">>]
File_cached ==
    [dir |-> <<Dir_cache>>, name |-> <<"l",".","m","d">>, mtime |-> 2,
     content |-> <<"#"," ","C","\n","\n","c">>]
FilePool == <<File_notes, File_spec, File_vendor, File_cached>>

RECURSIVE Pick(_, _)
Pick(pool, chosen) ==
    IF pool = <<>> THEN <<>>
    ELSE (IF Head(pool) \in chosen THEN <<Head(pool)>> ELSE <<>>)
         \o Pick(Tail(pool), chosen)

FileSystems == { Pick(FilePool, chosen) : chosen \in SUBSET Range(FilePool) }

PathOf(f) == [dir |-> f.dir, name |-> f.name]

\* the values of config.localMarkdownPath: unset, or <<path>>
LocalMarkdownPaths ==
    { <<>>, <<PathOf(File_notes)>>, <<PathOf(File_vendor)>> }

DocInit ==
    /\ pure = PureIdle
    /\ retry = RetryIdle
    /\ norm = NormIdle
    /\ gen = GenIdle
    /\ reply = <<>>
    /\ backoff = BackoffIdle
    /\ jira = JiraIdle
    /\ cli = CliIdle
    /\ fs \in FileSystems
    /\ \E command \in {"readDocument", "markdown:read"}, auth \in BOOLEAN,
          path \in LocalMarkdownPaths :
          doc = [DocIdle EXCEPT !.pc = "start", !.command = command,
                                !.authConfigured = auth, !.localMarkdownPath = path]

\* readDocument up to its fetch: initialize() fails without an authentication
\* method, else RetryManager.execute starts the first documents.get
DocReadStarts ==
    /\ doc.pc = "start" /\ doc.command = "readDocument"
    /\ IF doc.authConfigured
       THEN /\ doc' = [doc EXCEPT !.pc = "fetching"]
            /\ retry' = RetryStart(DefaultMaxAttempts)
       ELSE /\ doc' = [doc EXCEPT !.pc = "done", !.result = Failure(Msg_NoAuth)]
            /\ UNCHANGED retry
    /\ UNCHANGED <<norm, fs, gen, reply, backoff, jira, cli, pure>>

\* documents.get resolved
DocFetchResolves ==
    /\ doc.pc = "fetching" /\ retry.status = "calling"
    /\ retry' = ExecuteResolved(retry)
    /\ \E document \in Documents : doc' = ReadDocumentResolved(doc, document)
    /\ UNCHANGED <<norm, fs, gen, reply, backoff, jira, cli, pure>>

\* documents.get rejected: RetryManager sleeps, or throws into readDocument's
\* catch block
DocFetchRejects ==
    /\ doc.pc = "fetching" /\ retry.status = "calling"
    /\ \E shape \in FetchErrorShapes, draw \in RandomDraws :
          LET r == ExecuteRejected(retry, MakeError(shape, retry.attempt), draw)
          IN  /\ retry' = r
              /\ doc' = IF r.status = "thrown"
                        THEN ReadDocumentCaught(doc, fs, r.thrown)
                        ELSE doc
    /\ UNCHANGED <<norm, fs, gen, reply, backoff, jira, cli, pure>>

\* the backoff sleep of the fetch ends
DocFetchSleepEnds ==
    /\ doc.pc = "fetching" /\ retry.status = "sleeping"
    /\ retry' = ExecuteWoke(retry)
    /\ doc' = IF retry'.status = "thrown"
              THEN ReadDocumentCaught(doc, fs, retry'.thrown)
              ELSE doc
    /\ UNCHANGED <<norm, fs, gen, reply, backoff, jira, cli, pure>>

\* the markdown:read command: fallbackToLocalMarkdown with no fetch
DocMarkdownRead ==
    /\ doc.pc = "start" /\ doc.command = "markdown:read"
    /\ doc' = FallbackToLocalMarkdown(doc, fs)
    /\ UNCHANGED <<retry, norm, fs, gen, reply, backoff, jira, cli, pure>>

DocNext ==
    \/ DocReadStarts
    \/ DocFetchResolves
    \/ DocFetchRejects
    \/ DocFetchSleepEnds
    \/ DocMarkdownRead

SpecDoc == DocInit /\ [][DocNext]_vars

(***************************************************************************)
(* The directory scan of the fallback locator on its own                   *)
(* (src/src/modules/gdocs.ts:307-318, 359-399): findMarkdownFiles applied  *)
(* to a file system that also holds files in hidden directories, in        *)
(* node_modules and with another extension.                                *)
(***************************************************************************)
Dir_obsidian == <<".","o","b","s","i","d","i","a","n">>
Dir_git == <<".","g","i","t">>

File_hidden ==
    [dir |-> <<Dir_docs, Dir_obsidian>>, name |-> <<"h",".","m","d">>, mtime |-> 4,
     content |-> <<"h">>]
File_text ==
    [dir |-> <<Dir_docs>>, name |-> <<"t",".","t","x","t">>, mtime |-> 5,
     content |-> <<"t">>]
File_git ==
    [dir |-> <<Dir_git>>, name |-> <<"g",".","m","d">>, mtime |-> 6,
     content |-> <<"g">>]
File_cachedDeps ==
    [dir |-> <<Dir_cache, Dir_node_modules>>, name |-> <<"w",".","m","d">>, mtime |-> 7,
     content |-> <<"w">>]

ScanPool ==
    <<File_notes, File_spec, File_vendor, File_cached, File_hidden, File_text, File_git,
      File_cachedDeps>>

ScanFileSystems == { Pick(ScanPool, chosen) : chosen \in SUBSET Range(ScanPool) }

ScanInit ==
    /\ \E files \in ScanFileSystems :
          pure = [stage |-> "scan", input |-> files, output |-> <<>>]
    /\ retry = RetryIdle
    /\ norm = NormIdle
    /\ fs = {}
    /\ doc = DocIdle
    /\ gen = GenIdle
    /\ reply = <<>>
    /\ backoff = BackoffIdle
    /\ jira = JiraIdle
    /\ cli = CliIdle

\* const markdownFiles = this.findMarkdownFiles(searchPaths)
ScanRuns ==
    /\ pure.stage = "scan"
    /\ pure' = [pure EXCEPT !.stage = "scanned", !.output = FindMarkdownFiles(pure.input)]
    /\ UNCHANGED <<retry, norm, fs, doc, gen, reply, backoff, jira, cli>>

ScanNext == ScanRuns

SpecScan == ScanInit /\ [][ScanNext]_vars

(***************************************************************************)
(* JSON.parse on the subset of JSON the replies of this model use: arrays, *)
(* objects, strings with backslash escapes, integers, true/false/null.     *)
(* A parsed value is [t, s, n, items, keys]: t is its type, s the          *)
(* characters of a string, n a number, items the elements of an array or   *)
(* the member values of an object, keys the member names of an object.     *)
(***************************************************************************)
JStr(s) == [t |-> "str", s |-> s, n |-> 0, items |-> <<>>, keys |-> <<>>]
JNum(n) == [t |-> "num", s |-> <<>>, n |-> n, items |-> <<>>, keys |-> <<>>]
JLit(name) == [t |-> name, s |-> <<>>, n |-> 0, items |-> <<>>, keys |-> <<>>]
JArr(items) == [t |-> "arr", s |-> <<>>, n |-> 0, items |-> items, keys |-> <<>>]
JObj(keys, items) == [t |-> "obj", s |-> <<>>, n |-> 0, items |-> items, keys |-> keys]

JsonWhiteSpace == {" ", "\t", "\n", "\r"}
ParseFail == [ok |-> FALSE, v |-> JLit("null"), pos |-> 0]
Parsed(v, pos) == [ok |-> TRUE, v |-> v, pos |-> pos]

\* the first index >= p of s whose character is not in set; Len(s) + 1 if none
SkipWhile(s, p, set) ==
    IF \A i \in p..Len(s) : s[i] \in set THEN Len(s) + 1
    ELSE CHOOSE i \in p..Len(s) : s[i] \notin set /\ \A j \in p..(i - 1) : s[j] \in set

\* the first index >= p of s whose character is in set; 0 if none
FirstOf(s, p, set) ==
    IF \A i \in p..Len(s) : s[i] \notin set THEN 0
    ELSE CHOOSE i \in p..Len(s) : s[i] \in set /\ \A j \in p..(i - 1) : s[j] \notin set

At(s, p) == IF p >= 1 /\ p <= Len(s) THEN s[p] ELSE "<end>"

EscapeChars == {"\"", "\\", "/", "b", "f", "n", "r", "t"}
Unescaped(c) ==
    CASE c = "n" -> "\n"
      [] c = "t" -> "\t"
      [] c = "r" -> "\r"
      [] OTHER -> c

\* the string literal whose opening quote is at p - 1: the characters up to
\* the closing quote, or a failure (no closing quote, a raw control
\* character, a bad escape)
RECURSIVE ParseStringBody(_, _, _)
ParseStringBody(s, p, acc) ==
    LET q == FirstOf(s, p, {"\"", "\\", "\n", "\t", "\r"})
    IN  IF q = 0 \/ s[q] \in {"\n", "\t", "\r"} THEN ParseFail
        ELSE IF s[q] = "\"" THEN Parsed(JStr(acc \o Slice(s, p, q - 1)), q + 1)
        ELSE IF At(s, q + 1) \in EscapeChars
             THEN ParseStringBody(s, q + 2,
                                  acc \o Slice(s, p, q - 1) \o <<Unescaped(s[q + 1])>>)
             ELSE ParseFail

\* a number: -? (0 | [1-9][0-9]*) (. [0-9]+)?  -- n is its integer part, s the
\* digits of its fraction
ParseNumber(s, p) ==
    LET neg == At(s, p) = "-"
        d == IF neg THEN p + 1 ELSE p
        e == SkipWhile(s, d, Range(Digits))
        f == IF At(s, e) = "." THEN SkipWhile(s, e + 1, Range(Digits)) ELSE e
    IN  IF e = d \/ (s[d] = "0" /\ e > d + 1) \/ (At(s, e) = "." /\ f = e + 1)
           \/ At(s, f) \in {"e", "E"}
        THEN ParseFail
        ELSE Parsed([JNum((IF neg THEN -1 ELSE 1) * DigitsValue(Slice(s, d, e - 1), 0))
                        EXCEPT !.s = Slice(s, e + 1, f - 1)], f)

ParseLiteral(s, p, word, name) ==
    IF Slice(s, p, Min(Len(s), p + Len(word) - 1)) = word
    THEN Parsed(JLit(name), p + Len(word))
    ELSE ParseFail

RECURSIVE ParseValue(_, _), ParseElements(_, _, _), ParseMembers(_, _, _, _)

ParseValue(s, p0) ==
    LET p == SkipWhile(s, p0, JsonWhiteSpace)
        c == At(s, p)
    IN  CASE c = "\"" -> ParseStringBody(s, p + 1, <<>>)
          [] c = "[" ->
                LET q == SkipWhile(s, p + 1, JsonWhiteSpace)
                IN  IF At(s, q) = "]" THEN Parsed(JArr(<<>>), q + 1)
                    ELSE ParseElements(s, q, <<>>)
          [] c = "{" ->
                LET q == SkipWhile(s, p + 1, JsonWhiteSpace)
                IN  IF At(s, q) = "}" THEN Parsed(JObj(<<>>, <<>>), q + 1)
                    ELSE ParseMembers(s, q, <<>>, <<>>)
          [] c = "-" \/ IsDigit(c) -> ParseNumber(s, p)
          [] c = "t" -> ParseLiteral(s, p, <<"t","r","u","e">>, "true")
          [] c = "f" -> ParseLiteral(s, p, <<"f","a","l","s","e">>, "false")
          [] c = "n" -> ParseLiteral(s, p, <<"n","u","l","l">>, "null")
          [] OTHER -> ParseFail

\* the elements of an array from p on: value (, value)* ]
ParseElements(s, p, acc) ==
    LET v == ParseValue(s, p)
        q == SkipWhile(s, v.pos, JsonWhiteSpace)
    IN  IF ~v.ok THEN ParseFail
        ELSE IF At(s, q) = "," THEN ParseElements(s, q + 1, Append(acc, v.v))
        ELSE IF At(s, q) = "]" THEN Parsed(JArr(Append(acc, v.v)), q + 1)
        ELSE ParseFail

\* the members of an object from p on: "key" : value (, "key" : value)* }
ParseMembers(s, p, keys, vals) ==
    LET k0 == SkipWhile(s, p, JsonWhiteSpace)
        k == IF At(s, k0) = "\"" THEN ParseStringBody(s, k0 + 1, <<>>) ELSE ParseFail
        colon == SkipWhile(s, k.pos, JsonWhiteSpace)
        v == IF k.ok /\ At(s, colon) = ":" THEN ParseValue(s, colon + 1) ELSE ParseFail
        q == SkipWhile(s, v.pos, JsonWhiteSpace)
    IN  IF ~v.ok THEN ParseFail
        ELSE IF At(s, q) = ","
             THEN ParseMembers(s, q + 1, Append(keys, k.v.s), Append(vals, v.v))
        ELSE IF At(s, q) = "}"
             THEN Parsed(JObj(Append(keys, k.v.s), Append(vals, v.v)), q + 1)
        ELSE ParseFail

\* JSON.parse(text): [ok, v]; ok is FALSE where JSON.parse throws a SyntaxError
JsonParse(text) ==
    LET v == ParseValue(text, 1)
    IN  IF v.ok /\ SkipWhile(text, v.pos, JsonWhiteSpace) = Len(text) + 1
        THEN v ELSE ParseFail

(***************************************************************************)
(* BDDCardSchema and BDDCardsArraySchema                                   *)
(* (src/src/types/index.ts:100-110, src/src/modules/gepeto.ts:18)          *)
(***************************************************************************)
SummaryMax == 80

K_summary == <<"s","u","m","m","a","r","y">>
K_description == <<"d","e","s","c","r","i","p","t","i","o","n">>
K_acceptanceCriteria ==
    <<"a","c","c","e","p","t","a","n","c","e","C","r","i","t","e","r","i","a">>
K_labels == <<"l","a","b","e","l","s">>
K_priority == <<"p","r","i","o","r","i","t","y">>
K_storyPoints == <<"s","t","o","r","y","P","o","i","n","t","s">>
K_component == <<"c","o","m","p","o","n","e","n","t">>
K_epicLink == <<"e","p","i","c","L","i","n","k">>
K_linkedIssues == <<"l","i","n","k","e","d","I","s","s","u","e","s">>

SchemaKeys ==
    <<K_summary, K_description, K_acceptanceCriteria, K_labels, K_priority,
      K_storyPoints, K_component, K_epicLink, K_linkedIssues>>

Priorities ==
    { <<"M","u","i","t","o"," ","B","a","i","x","a">>, <<"B","a","i","x","a">>,
      <<"M","é","d","i","a">>, <<"A","l","t","a">>,
      <<"M","u","i","t","o"," ","A","l","t","a">>,
      <<"L","o","w","e","s","t">>, <<"L","o","w">>, <<"M","e","d","i","u","m">>,
      <<"H","i","g","h">>, <<"H","i","g","h","e","s","t">> }

HasKey(obj, key) == \E i \in 1..Len(obj.keys) : obj.keys[i] = key
\* the value of a member: of the last one, when the name is repeated
Member(obj, key) == obj.items[Max({ i \in 1..Len(obj.keys) : obj.keys[i] = key })]

IsString(v) == v.t = "str"
IsNumber(v) == v.t = "num"
IsStringArray(v) == v.t = "arr" /\ \A i \in 1..Len(v.items) : IsString(v.items[i])
IsPriority(v) == IsString(v) /\ v.s \in Priorities

Required(obj, key, Ok(_)) == HasKey(obj, key) /\ Ok(Member(obj, key))
Optional(obj, key, Ok(_)) == HasKey(obj, key) => Ok(Member(obj, key))

\* z.string().max(80)
IsSummary(v) == IsString(v) /\ Len(v.s) <= SummaryMax

\* does BDDCardSchema accept the value
CardAccepted(v) ==
    /\ v.t = "obj"
    /\ Required(v, K_summary, IsSummary)
    /\ Required(v, K_description, IsString)
    /\ Required(v, K_acceptanceCriteria, IsStringArray)
    /\ Optional(v, K_labels, IsStringArray)
    /\ Optional(v, K_priority, IsPriority)
    /\ Optional(v, K_storyPoints, IsNumber)
    /\ Optional(v, K_component, IsString)
    /\ Optional(v, K_epicLink, IsString)
    /\ Optional(v, K_linkedIssues, IsStringArray)

\* the card BDDCardSchema.parse returns: the members the schema names, in the
\* schema's order (unknown members are stripped)
RECURSIVE CardMembers(_, _)
CardMembers(v, keys) ==
    IF keys = <<>> THEN [keys |-> <<>>, items |-> <<>>]
    ELSE LET rest == CardMembers(v, Tail(keys))
         IN  IF HasKey(v, Head(keys))
             THEN [keys |-> <<Head(keys)>> \o rest.keys,
                   items |-> <<Member(v, Head(keys))>> \o rest.items]
             ELSE rest

ParsedCard(v) == LET m == CardMembers(v, SchemaKeys) IN JObj(m.keys, m.items)

\* BDDCardsArraySchema.parse(parsed): [ok, cards]; ok is FALSE where it throws
\* a ZodError, which it does as soon as one element is not accepted
CardsArrayParse(parsed) ==
    IF parsed.t = "arr" /\ \A i \in 1..Len(parsed.items) : CardAccepted(parsed.items[i])
    THEN [ok |-> TRUE, cards |-> [i \in 1..Len(parsed.items) |-> ParsedCard(parsed.items[i])]]
    ELSE [ok |-> FALSE, cards |-> <<>>]

(***************************************************************************)
(* GepetoClient: candidate extraction and attemptJsonFix                   *)
(* (src/src/modules/gepeto.ts:75-88, 190-216)                              *)
(***************************************************************************)
\* the backquote character, which a string of this notation cannot hold
BackQuote == "<backquote>"
Fence_json == <<BackQuote, BackQuote, BackQuote, "j","s","o","n","\n">>
Fence_plain == <<BackQuote, BackQuote, BackQuote, "\n">>
Fence_close == <<"\n", BackQuote, BackQuote, BackQuote>>

MatchesAt(s, p, pat) ==
    /\ p + Len(pat) - 1 <= Len(s)
    /\ \A k \in 1..Len(pat) : s[p + k - 1] = pat[k]

\* the first index >= from where pat occurs in s; 0 if none
IndexOfFrom(s, pat, from) ==
    LET hits == { p \in from..(Len(s) - Len(pat) + 1) : MatchesAt(s, p, pat) }
    IN  IF hits = {} THEN 0 ELSE MinOf(hits)

\* content.match(open ([\s\S]*?) close): [found, group]
FenceMatch(content, open) ==
    LET starts == { p \in 1..Len(content) :
                      /\ MatchesAt(content, p, open)
                      /\ IndexOfFrom(content, Fence_close, p + Len(open)) # 0 }
    IN  IF starts = {} THEN [found |-> FALSE, group |-> <<>>]
        ELSE LET p == MinOf(starts)
                 c == IndexOfFrom(content, Fence_close, p + Len(open))
             IN  [found |-> TRUE, group |-> Slice(content, p + Len(open), c - 1)]

\* jsonString: the body of the first fence opened by three backquotes and
\* json, else of the first fence opened by three backquotes alone, else the
\* whole content
ExtractCandidate(content) ==
    LET tagged == FenceMatch(content, Fence_json)
        bare == FenceMatch(content, Fence_plain)
    IN  IF tagged.found THEN tagged.group
        ELSE IF bare.found THEN bare.group
        ELSE content

WordChars == Range(UpperLetters) \cup Range(LowerLetters) \cup Range(Digits) \cup {"_"}

NoMatch == [len |-> 0, out |-> <<>>]

\* /,(\s*[}\]])/g -> '$1'
TrailingCommaMatch(s, p) ==
    LET q == SkipWhile(s, p + 1, WhiteSpace)
    IN  IF s[p] = "," /\ At(s, q) \in {"}", "]"}
        THEN [len |-> q - p + 1, out |-> Slice(s, p + 1, q)]
        ELSE NoMatch

\* /([{,]\s*)(\w+):/g -> '$1"$2":'
UnquotedKeyMatch(s, p) ==
    LET w == SkipWhile(s, p + 1, WhiteSpace)
        e == SkipWhile(s, w, WordChars)
    IN  IF s[p] \in {"{", ","} /\ e > w /\ At(s, e) = ":"
        THEN [len |-> e - p + 1,
              out |-> Slice(s, p, w - 1) \o <<"\"">> \o Slice(s, w, e - 1) \o <<"\"", ":">>]
        ELSE NoMatch

\* /:\s*([^",{\[\s][^,}\]]*?)(\s*[,}])/g -> ': "$1"$2'
\* $1 starts at the first character after the white space, which must not be
\* one of " , { [; the lazy run ends before the white space that precedes the
\* first , } or ] -- and there is no match when that character is ]
UnquotedValueMatch(s, p) ==
    LET j == SkipWhile(s, p + 1, WhiteSpace)
        stop == FirstOf(s, j + 1, {",", "}", "]"})
        last == Max({ i \in j..(stop - 1) : s[i] \notin WhiteSpace })
    IN  IF /\ s[p] = ":"
           /\ At(s, j) \notin {"<end>", "\"", ",", "{", "["}
           /\ stop # 0
           /\ s[stop] \in {",", "}"}
        THEN [len |-> stop - p + 1,
              out |-> <<":", " ", "\"">> \o Slice(s, j, last) \o <<"\"">>
                      \o Slice(s, last + 1, stop)]
        ELSE NoMatch

\* /"\s*:\s*"/g -> '": "'
ColonSpacingMatch(s, p) ==
    LET c == SkipWhile(s, p + 1, WhiteSpace)
        q == SkipWhile(s, c + 1, WhiteSpace)
    IN  IF s[p] = "\"" /\ At(s, c) = ":" /\ At(s, q) = "\""
        THEN [len |-> q - p + 1, out |-> <<"\"", ":", " ", "\"">>]
        ELSE NoMatch

\* /,\s*}/g -> '}'
CommaBraceMatch(s, p) ==
    LET q == SkipWhile(s, p + 1, WhiteSpace)
    IN  IF s[p] = "," /\ At(s, q) = "}" THEN [len |-> q - p + 1, out |-> <<"}">>]
        ELSE NoMatch

\* /,\s*]/g -> ']'
CommaBracketMatch(s, p) ==
    LET q == SkipWhile(s, p + 1, WhiteSpace)
    IN  IF s[p] = "," /\ At(s, q) = "]" THEN [len |-> q - p + 1, out |-> <<"]">>]
        ELSE NoMatch

\* the match of one of the six rewrites of attemptJsonFix at p
RuleMatch(rule, s, p) ==
    CASE rule = "trailingComma" -> TrailingCommaMatch(s, p)
      [] rule = "unquotedKey" -> UnquotedKeyMatch(s, p)
      [] rule = "unquotedValue" -> UnquotedValueMatch(s, p)
      [] rule = "colonSpacing" -> ColonSpacingMatch(s, p)
      [] rule = "commaBrace" -> CommaBraceMatch(s, p)
      [] rule = "commaBracket" -> CommaBracketMatch(s, p)

\* String.prototype.replace with a global pattern: left to right, matches do
\* not overlap, what is not matched is copied
RECURSIVE ReplaceAll(_, _, _)
ReplaceAll(s, p, rule) ==
    LET m == [q \in p..Len(s) |-> RuleMatch(rule, s, q)]
    IN  IF \A q \in p..Len(s) : m[q].len = 0 THEN Slice(s, p, Len(s))
        ELSE LET q == CHOOSE i \in p..Len(s) :
                          m[i].len > 0 /\ \A j \in p..(i - 1) : m[j].len = 0
             IN  Slice(s, p, q - 1) \o m[q].out \o ReplaceAll(s, q + m[q].len, rule)

\* the six rewrites of attemptJsonFix, in the order of the chain
FixRules ==
    <<"trailingComma", "unquotedKey", "unquotedValue", "colonSpacing", "commaBrace",
      "commaBracket">>

RECURSIVE ApplyRules(_, _)
ApplyRules(s, rules) ==
    IF rules = <<>> THEN s
    ELSE ApplyRules(ReplaceAll(s, 1, Head(rules)), Tail(rules))

LastIndexOf(s, c) ==
    LET hits == { i \in 1..Len(s) : s[i] = c }
    IN  IF hits = {} THEN 0 ELSE Max(hits)

\* fixed.substring(0, arrayEnd + 1) when ] is found after the first character
\* and is not the last one
CutAfterArray(fixed, arrayEnd) ==
    IF arrayEnd > 1 /\ arrayEnd < Len(fixed) THEN Slice(fixed, 1, arrayEnd) ELSE fixed

\* fixed.substring(arrayStart) when [ is found after the first character
CutBeforeArray(fixed, arrayStart) ==
    IF arrayStart > 1 THEN Drop(fixed, arrayStart - 1) ELSE fixed

CutToArray(fixed) == CutAfterArray(fixed, LastIndexOf(fixed, "]"))

CutFromArray(fixed) == CutToArray(CutBeforeArray(fixed, FirstOf(fixed, 1, {"["})))

\* GepetoClient.attemptJsonFix
AttemptJsonFix(jsonString) == ApplyRules(CutFromArray(Trim(jsonString)), FixRules)

(***************************************************************************)
(* GepetoClient.generateBDDCards (src/src/modules/gepeto.ts:39-107)        *)
(***************************************************************************)
Msg_NoContent ==
    <<"N","o"," ","c","o","n","t","e","n","t"," ","r","e","c","e","i","v","e","d"," ",
      "f","r","o","m"," ","G","e","p","e","t","o">>

\* the text of the source that the message of JSON.parse's SyntaxError quotes:
\* none on a runtime whose messages give a position only; on a runtime that
\* quotes the source, all of it when it is shorter than 21 characters (of a
\* longer source such a message shows a window of at most 20 characters,
\* which holds no whole text of this model)
SyntaxErrorQuote(quotingRuntime, source) ==
    IF quotingRuntime /\ Len(source) < 21 THEN source ELSE <<>>

\* a saveToCache that writes the timestamped files only
GenSaveToCacheSnapshotOnly(cache, rawResponse, cards) ==
    [rawLatest |-> cache.rawLatest, cardsLatest |-> cache.cardsLatest,
     snapshots |-> Append(cache.snapshots, [raw |-> rawResponse, cards |-> cards])]

\* GepetoClient.saveToCache(rawResponse, cards)
GenSaveToCache(cache, rawResponse, cards) ==
    [rawLatest |-> rawResponse, cardsLatest |-> cards,
     snapshots |-> Append(cache.snapshots, [raw |-> rawResponse, cards |-> cards])]

\* BDDCardsArraySchema.parse(parsed) as [ok, cards, name], name being the error
\* thrown when ok is FALSE
SchemaChecked(cards) ==
    IF cards.ok THEN [ok |-> TRUE, cards |-> cards.cards, name |-> ""]
    ELSE [ok |-> FALSE, cards |-> <<>>, name |-> "ZodError"]

\* what follows JSON.parse(text) in either try block
JsonChecked(parsed) ==
    IF parsed.ok THEN SchemaChecked(CardsArrayParse(parsed.v))
    ELSE [ok |-> FALSE, cards |-> <<>>, name |-> "SyntaxError"]

\* JSON.parse then BDDCardsArraySchema.parse of one text
StrictParse(text) == JsonChecked(JsonParse(text))

\* gepeto.ts:91-99: the cards are cached and returned
CardsAccepted(g, cards) ==
    [g EXCEPT !.pc = "done", !.cache = GenSaveToCache(@, g.content, cards),
              !.result = GenSuccess(cards)]

\* a catch block that keeps the raw reply of the failed run in the cache
RepairRejectedPersisting(g, name) ==
    [g EXCEPT !.pc = "done", !.cache = GenSaveToCache(@, g.content, <<>>),
              !.result = GenFailure(name, <<>>)]

\* gepeto.ts:86-87 threw: the outer catch block returns the error's message
RepairRejected(g, name) ==
    [g EXCEPT !.pc = "done",
              !.result = GenFailure(name,
                                    IF name = "SyntaxError"
                                    THEN SyntaxErrorQuote(g.quotingRuntime, g.repaired)
                                    ELSE <<>>)]

\* gepeto.ts:86-87, the repaired text parsed with outcome `second`
AfterRepairedParse(g, second) ==
    IF second.ok THEN CardsAccepted(g, second.cards) ELSE RepairRejected(g, second.name)

\* gepeto.ts:83-88, the inner catch block: fixedJson is what attemptJsonFix made
InnerCatch(g, fixedJson) ==
    AfterRepairedParse([g EXCEPT !.repaired = fixedJson, !.repairs = @ + 1,
                                 !.strictParses = @ + 1],
                       StrictParse(fixedJson))

\* a parse step that repairs the candidate whatever the first parse said
AfterStrictParseAlwaysRepairs(g, first) ==
    InnerCatch(g, AttemptJsonFix(g.candidate))

\* gepeto.ts:80-88, the candidate parsed with outcome `first`
AfterStrictParse(g, first) ==
    IF first.ok THEN CardsAccepted(g, first.cards)
    ELSE InnerCatch(g, AttemptJsonFix(g.candidate))

\* gepeto.ts:79-99 for the candidate jsonString
ParseCandidate(g, jsonString) ==
    AfterStrictParse([g EXCEPT !.candidate = jsonString, !.strictParses = @ + 1],
                     StrictParse(jsonString))

\* generateBDDCards from the reply's content on (gepeto.ts:73-99), as the new
\* state of the client
RecoverCards(g, content) ==
    ParseCandidate([g EXCEPT !.content = content], ExtractCandidate(content))

\* generateBDDCards after the POST resolved with `response` (gepeto.ts:65-99):
\* GepetoResponseSchema.parse, then choices[0]?.message?.content
GenerateResolved(g, response) ==
    IF ~response.wellFormed
    THEN [g EXCEPT !.pc = "done", !.result = GenFailure("ZodError", <<>>)]
    ELSE IF response.choices = <<>> \/ response.choices[1] = <<>>
    THEN [g EXCEPT !.pc = "done", !.result = GenFailure("Error", Msg_NoContent)]
    ELSE RecoverCards(g, response.choices[1])

\* generateBDDCards' catch block, the POST having failed for good
GenerateCaught(g, error) ==
    [g EXCEPT !.pc = "done", !.result = GenFailure("AxiosError", error.message)]

(***************************************************************************)
(* The replies of the completion service of this model: card arrays        *)
(* written with quoted or bare keys, with or without trailing commas,      *)
(* bare, in a json fence after some prose, or in a fence without tag; and  *)
(* replies that hold no array.                                             *)
(***************************************************************************)
Quoted(s) == <<"\"">> \o s \o <<"\"">>

RenderKey(key, quotedKeys) == (IF quotedKeys THEN Quoted(key) ELSE key) \o <<":", " ">>

RECURSIVE RenderStrings(_)
RenderStrings(list) ==
    IF list = <<>> THEN <<>>
    ELSE Quoted(Head(list))
         \o (IF Len(list) > 1 THEN <<",", " ">> \o RenderStrings(Tail(list)) ELSE <<>>)

\* a card as the service writes it; points = 0 stands for no storyPoints
RenderCard(card, quotedKeys, trailing) ==
    <<"{">> \o RenderKey(K_summary, quotedKeys) \o Quoted(card.summary) \o <<",", " ">>
    \o RenderKey(K_description, quotedKeys) \o Quoted(card.description) \o <<",", " ">>
    \o RenderKey(K_acceptanceCriteria, quotedKeys)
    \o <<"[">> \o RenderStrings(card.criteria) \o <<"]">>
    \o (IF card.points > 0
        THEN <<",", " ">> \o RenderKey(K_storyPoints, quotedKeys) \o <<Digits[card.points + 1]>>
        ELSE <<>>)
    \o (IF trailing THEN <<",">> ELSE <<>>) \o <<"}">>

RECURSIVE RenderCards(_, _, _)
RenderCards(cards, quotedKeys, trailing) ==
    IF cards = <<>> THEN <<>>
    ELSE RenderCard(Head(cards), quotedKeys, trailing)
         \o (IF Len(cards) > 1
             THEN <<",", " ">> \o RenderCards(Tail(cards), quotedKeys, trailing)
             ELSE <<>>)

RenderArray(cards, quotedKeys, trailing) ==
    <<"[">> \o RenderCards(cards, quotedKeys, trailing) \o <<"]">>

\* the card a written card stands for, as BDDCardSchema.parse would return it
CardOf(card) ==
    JObj(<<K_summary, K_description, K_acceptanceCriteria>>
            \o (IF card.points > 0 THEN <<K_storyPoints>> ELSE <<>>),
         <<JStr(card.summary), JStr(card.description),
           JArr([i \in 1..Len(card.criteria) |-> JStr(card.criteria[i])])>>
            \o (IF card.points > 0 THEN <<JNum(card.points)>> ELSE <<>>))

Txt_Test == <<"T","e","s","t">>
Txt_HereYouGo == <<"H","e","r","e"," ","y","o","u"," ","g","o",":","\n">>
Txt_Sorry == <<"S","o","r","r","y">>
Txt_Refusal ==
    <<"S","o","r","r","y",","," ","I"," ","c","a","n","n","o","t"," ","h","e","l","p",
      " ","w","i","t","h"," ","t","h","a","t",".">>

Card_plain == [summary |-> Txt_Test, description |-> <<"d">>, criteria |-> <<<<"a">>>>,
               points |-> 0]
Card_longSummary == [Card_plain EXCEPT !.summary = Repeat("x", SummaryMax + 5)]
Card_fullSummary == [Card_plain EXCEPT !.summary = Repeat("x", SummaryMax)]
Card_noCriteria == [Card_plain EXCEPT !.criteria = <<>>]
Card_points == [Card_plain EXCEPT !.points = 3]

CardKinds == {Card_plain, Card_longSummary, Card_fullSummary, Card_noCriteria, Card_points}

\* the longest batch of cards a reply of this model holds
MaxCards == 2

RECURSIVE BatchesOfLen(_)
BatchesOfLen(n) ==
    IF n = 0 THEN {<<>>}
    ELSE { <<c>> \o b : c \in CardKinds, b \in BatchesOfLen(n - 1) }

Batches ==
    UNION { BatchesOfLen(n) : n \in 0..MaxCards }
    \cup { <<Card_plain, Card_longSummary, Card_plain>> }

Wrap(wrapper, text) ==
    CASE wrapper = "bare" -> text
      [] wrapper = "json fence" -> Txt_HereYouGo \o Fence_json \o text \o Fence_close
      [] wrapper = "plain fence" -> Fence_plain \o text \o Fence_close

ArrayReplies ==
    { [batch |-> b, quotedKeys |-> q, trailing |-> t, wrapper |-> w] :
        b \in Batches, q \in BOOLEAN, t \in BOOLEAN,
        w \in {"bare", "json fence", "plain fence"} }

ContentOf(written) ==
    Wrap(written.wrapper, RenderArray(written.batch, written.quotedKeys, written.trailing))

\* replies that hold no card array: a refusal, a truncated array
OtherContents ==
    { Txt_Sorry, Txt_Refusal,
      <<"[", "{">> \o RenderKey(K_summary, TRUE) \o Quoted(Txt_Test) }

\* the responses of the completion service
Responses ==
    { [wellFormed |-> TRUE, choices |-> <<ContentOf(written)>>, reply |-> <<written>>] :
        written \in ArrayReplies }
    \cup { [wellFormed |-> TRUE, choices |-> <<c>>, reply |-> <<>>] : c \in OtherContents }
    \cup { [wellFormed |-> TRUE, choices |-> <<>>, reply |-> <<>>],
           [wellFormed |-> TRUE, choices |-> << <<>> >>, reply |-> <<>>],
           [wellFormed |-> FALSE, choices |-> <<>>, reply |-> <<>>] }

\* the failures the completion service answers with
PostErrorShapes == { shape \in ErrorShapes : shape.status \in {404, 500} }

(***************************************************************************)
(* Specification of one generateBDDCards call                              *)
(***************************************************************************)
GenInit ==
    /\ pure = PureIdle
    /\ norm = NormIdle
    /\ fs = <<>>
    /\ doc = DocIdle
    /\ retry = RetryStart(DefaultMaxAttempts)
    /\ reply = <<>>
    /\ backoff = BackoffIdle
    /\ jira = JiraIdle
    /\ cli = CliIdle
    /\ \E quoting \in BOOLEAN :
          gen = [GenIdle EXCEPT !.pc = "posting", !.quotingRuntime = quoting]

\* client.post resolved
GenPostResolves ==
    /\ gen.pc = "posting" /\ retry.status = "calling"
    /\ retry' = ExecuteResolved(retry)
    /\ \E response \in Responses :
          /\ gen' = GenerateResolved(gen, response)
          /\ reply' = response.reply
    /\ UNCHANGED <<norm, fs, doc, backoff, jira, cli, pure>>

\* client.post rejected: RetryManager sleeps, or throws into the catch block
GenPostRejects ==
    /\ gen.pc = "posting" /\ retry.status = "calling"
    /\ \E shape \in PostErrorShapes, draw \in RandomDraws :
          LET r == ExecuteRejected(retry, MakeError(shape, retry.attempt), draw)
          IN  /\ retry' = r
              /\ gen' = IF r.status = "thrown" THEN GenerateCaught(gen, r.thrown) ELSE gen
    /\ UNCHANGED <<norm, fs, doc, reply, backoff, jira, cli, pure>>

\* the backoff sleep of the POST ends
GenPostSleepEnds ==
    /\ gen.pc = "posting" /\ retry.status = "sleeping"
    /\ retry' = ExecuteWoke(retry)
    /\ gen' = IF retry'.status = "thrown" THEN GenerateCaught(gen, retry'.thrown) ELSE gen
    /\ UNCHANGED <<norm, fs, doc, reply, backoff, jira, cli, pure>>

GenNext == GenPostResolves \/ GenPostRejects \/ GenPostSleepEnds

SpecGen == GenInit /\ [][GenNext]_vars

(***************************************************************************)
(* Candidate extraction on its own (src/src/modules/gepeto.ts:75-77): the  *)
(* reply is a list of blocks, each a line of prose or a fenced block with  *)
(* a tag (json, js or none), joined by line feeds.                         *)
(***************************************************************************)
\* the largest number of blocks in a reply
MaxBlocks == 2

Tag_json == <<"j","s","o","n">>
Tag_js == <<"j","s">>
Tag_none == <<>>
Body_array == <<"[","1","]">>
Body_text == <<"x">>

Prose(text) == [fenced |-> FALSE, tag |-> <<>>, body |-> text]
Fenced(tag, body) == [fenced |-> TRUE, tag |-> tag, body |-> body]

ReplyBlocks ==
    {Prose(Txt_Sorry)}
    \cup { Fenced(tag, body) : tag \in {Tag_json, Tag_js, Tag_none},
                               body \in {Body_array, Body_text} }

\* a block as the service writes it
RenderBlock(block) ==
    IF block.fenced
    THEN <<BackQuote, BackQuote, BackQuote>> \o block.tag \o <<"\n">> \o block.body
         \o <<"\n", BackQuote, BackQuote, BackQuote>>
    ELSE block.body

RECURSIVE RenderBlocks(_)
RenderBlocks(blocks) ==
    IF blocks = <<>> THEN <<>>
    ELSE RenderBlock(Head(blocks))
         \o (IF Len(blocks) > 1 THEN <<"\n">> \o RenderBlocks(Tail(blocks)) ELSE <<>>)

ExtractInit ==
    /\ \E blocks \in SeqsUpTo(ReplyBlocks, MaxBlocks) :
          pure = [stage |-> "extract", input |-> blocks, output |-> <<>>]
    /\ retry = RetryIdle
    /\ norm = NormIdle
    /\ fs = {}
    /\ doc = DocIdle
    /\ gen = GenIdle
    /\ reply = <<>>
    /\ backoff = BackoffIdle
    /\ jira = JiraIdle
    /\ cli = CliIdle

\* const jsonMatch = ...; const jsonString = jsonMatch ? jsonMatch[1] : content
ExtractRuns ==
    /\ pure.stage = "extract"
    /\ pure' = [pure EXCEPT !.stage = "extracted",
                            !.output = ExtractCandidate(RenderBlocks(pure.input))]
    /\ UNCHANGED <<retry, norm, fs, doc, gen, reply, backoff, jira, cli>>

ExtractNext == ExtractRuns

SpecExtract == ExtractInit /\ [][ExtractNext]_vars

(***************************************************************************)
(* The cache directory over several runs: document reads and generations,  *)
(* each succeeding or failing, in any order                                *)
(* (src/src/modules/gdocs.ts:221-241, src/src/modules/gepeto.ts:242-270).  *)
(* pure.input lists whether each document read succeeded, pure.output      *)
(* whether each generation did.                                            *)
(***************************************************************************)
\* the number of runs of one history
MaxRuns == 3

\* the replies of the runs: one card with quoted or bare keys, with or
\* without story points, a refusal, and a reply with no content
CacheResponses ==
    { response \in Responses :
        \/ /\ response.reply # <<>>
           /\ response.reply[1].batch \in {<<Card_plain>>, <<Card_points>>}
           /\ response.reply[1].wrapper = "bare"
           /\ ~response.reply[1].trailing
        \/ response.choices \in {<<Txt_Sorry>>, <<>>} }

\* generateBDDCards is called again: only the cache directory is left of the
\* run before
NextGeneration(g) ==
    [GenIdle EXCEPT !.pc = "posting", !.quotingRuntime = g.quotingRuntime,
                    !.cache = g.cache]

RunsLeft == Len(pure.input) + Len(pure.output) < MaxRuns

CacheInit ==
    /\ pure = [stage |-> "runs", input |-> <<>>, output |-> <<>>]
    /\ retry = RetryIdle
    /\ norm = NormIdle
    /\ fs \in {<<>>, <<File_notes>>}
    /\ doc = [DocIdle EXCEPT !.authConfigured = TRUE]
    /\ gen = GenIdle
    /\ reply = <<>>
    /\ backoff = BackoffIdle
    /\ jira = JiraIdle
    /\ cli = CliIdle

\* a readDocument whose fetch resolves
CacheDocumentRead ==
    /\ RunsLeft
    /\ \E document \in Documents : doc' = ReadDocumentResolved(doc, document)
    /\ pure' = [pure EXCEPT !.input = Append(@, TRUE)]
    /\ UNCHANGED <<retry, norm, fs, gen, reply, backoff, jira, cli>>

\* a readDocument whose fetch fails for good: the catch block, with or
\* without the local fallback
CacheDocumentFetchFails ==
    /\ RunsLeft
    /\ \E shape \in FetchErrorShapes :
          /\ ~RetryCondition(MakeError(shape, 1))
          /\ doc' = ReadDocumentCaught(doc, fs, MakeError(shape, 1))
    /\ pure' = [pure EXCEPT !.input = Append(@, doc'.result.success)]
    /\ UNCHANGED <<retry, norm, fs, gen, reply, backoff, jira, cli>>

\* a generateBDDCards whose POST resolves
CacheGenerationResolves ==
    /\ RunsLeft
    /\ \E response \in CacheResponses :
          gen' = GenerateResolved(NextGeneration(gen), response)
    /\ pure' = [pure EXCEPT !.output = Append(@, gen'.result.success)]
    /\ UNCHANGED <<retry, norm, fs, doc, reply, backoff, jira, cli>>

\* a generateBDDCards whose POST fails for good
CacheGenerationRejects ==
    /\ RunsLeft
    /\ \E shape \in PostErrorShapes :
          gen' = GenerateCaught(NextGeneration(gen), MakeError(shape, 1))
    /\ pure' = [pure EXCEPT !.output = Append(@, FALSE)]
    /\ UNCHANGED <<retry, norm, fs, doc, reply, backoff, jira, cli>>

CacheNext ==
    \/ CacheDocumentRead
    \/ CacheDocumentFetchFails
    \/ CacheGenerationResolves
    \/ CacheGenerationRejects

SpecCache == CacheInit /\ [][CacheNext]_vars

(***************************************************************************)
(* JiraClient.createIssue and createBatchIssues (src/unnamed/part_000,     *)
(* lines 124-152 and 170-211).  `retry` is the RetryManager.execute call   *)
(* of the createIssue in progress; jira.log records, in order, each POST   *)
(* sent ("request"), each POST settled ("response"), each inter-item timer *)
(* started ("delay") and fired ("resume"), with the 1-based item.          *)
(***************************************************************************)
\* the largest number of items a batch of this model holds
MaxBatch == 3

\* setTimeout(resolve, 500) between two items
InterItemDelay == 500

\* the failures of a POST to the issue endpoint: a rejected payload and a
\* timeout
IssueErrorShapes ==
    { shape \in ErrorShapes : shape.status = 400 \/ shape.code = "ETIMEDOUT" }

\* the failures after which the server may have created the issue all the
\* same: the answer was lost or late, or the server failed after the write
MayHaveBeenProcessed(error) ==
    \/ error.code \in {"ETIMEDOUT", "ECONNRESET"}
    \/ error.status >= 500

\* the server handles the POST of item j.i + 1: one more issue exists for that
\* card (jira.server lists the issues of the project, each by its card)
ServerCreates(j, processed) ==
    IF processed THEN [j EXCEPT !.server = Append(@, j.i + 1)] ELSE j

\* what a resolved POST carries in response.data: the created issue, or an
\* empty body
IssueBodies == {"issue", "empty"}

LogEvent(kind, item, ms) == [kind |-> kind, item |-> item, ms |-> ms]

\* an ApiResponse of createIssue
IssueCreated(body) == [success |-> TRUE, data |-> body, status |-> 0]
IssueFailed(error) == [success |-> FALSE, data |-> "", status |-> error.status]

\* a batch result that counts any failure as the failure of the batch
BatchResultAllOrNothing(results, errors) ==
    [success |-> errors = <<>>,
     data |-> results,
     error |-> IF Len(errors) > 0 THEN Len(errors) ELSE 0]

\* the value createBatchIssues returns; error is N of `${N} issues failed`,
\* 0 for undefined
BatchResult(results, errors) ==
    [success |-> Len(results) > 0,
     data |-> results,
     error |-> IF Len(errors) > 0 THEN Len(errors) ELSE 0]

\* a loop that sleeps after every item, the last one too
DelayFollowsAlways(i, n) == i < n

\* if (i < issues.length - 1): a delay follows item i (0-based)
DelayFollows(i, n) == i < n - 1

\* the loop test and what follows it, up to the next await: the POST of item
\* j.i + 1 is sent, or the loop is over and the batch returns
LoopTest(j) ==
    IF j.i < j.issues
    THEN [j EXCEPT !.pc = "creating",
                   !.log = Append(@, LogEvent("request", j.i + 1, 0))]
    ELSE [j EXCEPT !.pc = "returned",
                   !.result = BatchResult(j.results, j.errors)]

\* createIssue has returned `result` for item j.i: record it, then the delay
\* or the next turn of the loop
ItemSettled(j, result) ==
    LET recorded ==
            IF result.success /\ result.data # "empty"
            THEN [j EXCEPT !.results = Append(@, j.i + 1)]
            ELSE [j EXCEPT !.errors = Append(@, j.i + 1)]
    IN  IF DelayFollows(j.i, j.issues)
        THEN [recorded EXCEPT !.pc = "delaying",
                              !.log = Append(@, LogEvent("delay", j.i + 1, InterItemDelay))]
        ELSE LoopTest([recorded EXCEPT !.i = j.i + 1])

BatchInit ==
    /\ pure = PureIdle
    /\ \E n \in 0..MaxBatch : jira = [JiraIdle EXCEPT !.pc = "called", !.issues = n]
    /\ retry = RetryIdle
    /\ norm = NormIdle
    /\ fs = {}
    /\ doc = DocIdle
    /\ gen = GenIdle
    /\ reply = <<>>
    /\ backoff = BackoffIdle
    /\ cli = CliIdle

\* createBatchIssues is called: the loop is entered
BatchCalled ==
    /\ jira.pc = "called"
    /\ jira' = LoopTest(jira)
    /\ retry' = IF jira.issues > 0 THEN RetryStart(DefaultMaxAttempts) ELSE retry
    /\ UNCHANGED <<norm, fs, doc, gen, reply, backoff, cli, pure>>

\* the POST of the current item resolves: createIssue returns success
BatchPostResolves ==
    /\ jira.pc = "creating"
    /\ retry.status = "calling"
    /\ \E body \in IssueBodies :
         /\ retry' = ExecuteResolved(retry)
         /\ jira' = ItemSettled([ServerCreates(jira, TRUE)
                                   EXCEPT !.log = Append(@, LogEvent("response", jira.i + 1, 0))],
                                IssueCreated(body))
    /\ UNCHANGED <<norm, fs, doc, gen, reply, backoff, cli, pure>>

\* the POST of the current item rejects: execute sleeps before a retry, or
\* throws and createIssue's catch block returns the failure
BatchPostRejects ==
    /\ jira.pc = "creating"
    /\ retry.status = "calling"
    /\ \E shape \in IssueErrorShapes, draw \in RandomDraws, processed \in BOOLEAN :
         LET error == MakeError(shape, retry.attempt)
             answered == [ServerCreates(jira, processed)
                            EXCEPT !.log = Append(@, LogEvent("response", jira.i + 1, 0))]
         IN  /\ processed => MayHaveBeenProcessed(error)
             /\ retry' = ExecuteRejected(retry, error, draw)
             /\ jira' = IF retry'.status = "sleeping" THEN answered
                        ELSE ItemSettled(answered, IssueFailed(retry'.thrown))
    /\ UNCHANGED <<norm, fs, doc, gen, reply, backoff, cli, pure>>

\* the backoff sleep of the current item's createIssue ends: the POST is sent
\* again
BatchRetrySleepEnds ==
    /\ jira.pc = "creating"
    /\ retry.status = "sleeping"
    /\ retry' = ExecuteWoke(retry)
    /\ jira' = IF retry'.status = "calling"
               THEN [jira EXCEPT !.log = Append(@, LogEvent("request", jira.i + 1, 0))]
               ELSE ItemSettled(jira, IssueFailed(retry'.thrown))
    /\ UNCHANGED <<norm, fs, doc, gen, reply, backoff, cli, pure>>

\* the inter-item timer fires: i++, the loop test, the next createIssue
BatchDelayEnds ==
    /\ jira.pc = "delaying"
    /\ jira' = LoopTest([jira EXCEPT !.i = jira.i + 1,
                                     !.log = Append(@, LogEvent("resume", jira.i + 1, 0))])
    /\ retry' = IF jira.i + 1 < jira.issues THEN RetryStart(DefaultMaxAttempts) ELSE retry
    /\ UNCHANGED <<norm, fs, doc, gen, reply, backoff, cli, pure>>

BatchNext ==
    \/ BatchCalled
    \/ BatchPostResolves
    \/ BatchPostRejects
    \/ BatchRetrySleepEnds
    \/ BatchDelayEnds

SpecBatch == BatchInit /\ [][BatchNext]_vars

(***************************************************************************)
(* The commands that create issues: workflow, jira:create-batch and        *)
(* jira:create-example (src/src/types/index.ts:207-250, 366-440, 446-534)  *)
(* and the mode they run in (src/src/utils/config.ts:16-42, 77).           *)
(*   appMode   the APP_MODE of the configuration file: "" when not set     *)
(*   live, dryRun   whether --live / --dry-run is on the command line      *)
(*   mode      config.mode, once the configuration is loaded               *)
(*   stages    the client methods invoked, in order                        *)
(*   results   whether each stage that has returned succeeded              *)
(*   requests  the stages that sent a request to their remote service     *)
(***************************************************************************)
Commands == {"workflow", "jira:create-batch", "jira:create-example"}
AppModes == {"", "dry-run", "live"}

\* the step of a command at which `if (config.mode === 'dry-run') return` stands
DryRunReturn == "dryRunReturn"

CreationStages == {"createBatchIssues", "createExampleIssue"}

\* a jira:create-batch that looks up user and fields before its dry-run test
PipelineLateDryRunTest(command) ==
    IF command = "workflow"
    THEN <<"readDocument", "generateBDDCards", "findUser", "discoverRequiredFields",
           DryRunReturn, "createBatchIssues">>
    ELSE IF command = "jira:create-batch"
    THEN <<"findUser", "discoverRequiredFields", DryRunReturn, "createBatchIssues">>
    ELSE <<"findUser", DryRunReturn, "createExampleIssue">>

\* the awaited client calls of each command, in program order, with the place
\* of its dry-run return
Pipeline(command) ==
    IF command = "workflow"
    THEN <<"readDocument", "generateBDDCards", "findUser", "discoverRequiredFields",
           DryRunReturn, "createBatchIssues">>
    ELSE IF command = "jira:create-batch"
    THEN <<DryRunReturn, "findUser", "discoverRequiredFields", "createBatchIssues">>
    ELSE <<"findUser", DryRunReturn, "createExampleIssue">>

\* the remote service a stage talks to
ServiceOf(stage) ==
    IF stage = "readDocument" THEN "docs"
    ELSE IF stage = "generateBDDCards" THEN "gepeto"
    ELSE "jira"

\* mode: process.env.APP_MODE || 'dry-run'; the interactive setup defaults to
\* 'dry-run' as well
ConfigMode(appMode) == IF appMode = "" THEN "dry-run" ELSE appMode

\* a dry-run test that never holds
IsDryRunNever(mode) == FALSE

\* config.mode === 'dry-run'
IsDryRun(mode) == mode = "dry-run"

\* a test of a stage's result that never sees a failure
StageFailedNever(ok) == FALSE

\* !result.success || !result.data
StageFailed(ok) == ~ok

\* what a stage can come back with: success after its request was answered,
\* failure after its request, or failure before any request was sent (no
\* credentials, a client constructor that throws)
StageOutcomes ==
    { [ok |-> TRUE, sent |-> TRUE], [ok |-> FALSE, sent |-> TRUE], [ok |-> FALSE, sent |-> FALSE] }

\* the command runs on from step `at` of its pipeline to its next await: the
\* dry-run return, the next client call, or the end of the action
RECURSIVE RunFrom(_, _)
RunFrom(c, at) ==
    IF at > Len(Pipeline(c.command))
    THEN [c EXCEPT !.pc = "exited", !.exitCode = 0]
    ELSE IF Pipeline(c.command)[at] = DryRunReturn
    THEN IF IsDryRun(c.mode)
         THEN [c EXCEPT !.pc = "exited", !.exitCode = 0]
         ELSE RunFrom(c, at + 1)
    ELSE [c EXCEPT !.pc = "awaiting", !.at = at,
                   !.stages = Append(@, Pipeline(c.command)[at])]

CliInit ==
    /\ pure = PureIdle
    /\ \E command \in Commands, appMode \in AppModes, live \in BOOLEAN, dryRun \in BOOLEAN :
          cli = [CliIdle EXCEPT !.pc = "loadConfig", !.command = command,
                                !.appMode = appMode, !.live = live, !.dryRun = dryRun]
    /\ retry = RetryIdle
    /\ norm = NormIdle
    /\ fs = {}
    /\ doc = DocIdle
    /\ gen = GenIdle
    /\ reply = <<>>
    /\ backoff = BackoffIdle
    /\ jira = JiraIdle

\* loadConfig resolves; jira:create-batch then reads its cards file, which
\* may fail (process.exit(1)); the command runs to its first client call
CliConfigLoaded ==
    /\ cli.pc = "loadConfig"
    /\ \E cardsRead \in BOOLEAN :
         LET loaded == [cli EXCEPT !.mode = ConfigMode(cli.appMode)]
         IN  cli' = IF cli.command = "jira:create-batch" /\ ~cardsRead
                    THEN [loaded EXCEPT !.pc = "exited", !.exitCode = 1]
                    ELSE RunFrom(loaded, 1)
    /\ UNCHANGED <<retry, norm, fs, doc, gen, reply, backoff, jira, pure>>

\* the awaited client call returns: process.exit(1) on a failure, else the
\* command runs on
CliStageReturns ==
    /\ cli.pc = "awaiting"
    /\ \E outcome \in StageOutcomes :
         LET stage == Pipeline(cli.command)[cli.at]
             returned == [cli EXCEPT
                            !.results = Append(@, outcome.ok),
                            !.requests = IF outcome.sent THEN @ \cup {stage} ELSE @]
         IN  cli' = IF StageFailed(outcome.ok)
                    THEN [returned EXCEPT !.pc = "exited", !.exitCode = 1]
                    ELSE RunFrom(returned, cli.at + 1)
    /\ UNCHANGED <<retry, norm, fs, doc, gen, reply, backoff, jira, pure>>

CliNext == CliConfigLoaded \/ CliStageReturns

SpecCli == CliInit /\ [][CliNext]_vars

(***************************************************************************)
(* Properties                                                              *)
(***************************************************************************)
\* the retryable class as section 4.1 words it: a connection reset or
\* timeout, an HTTP 5xx, or an HTTP 429
TransportClass(error) ==
    \/ error.code \in {"ECONNRESET", "ETIMEDOUT"}
    \/ error.status \in 500..599
    \/ error.status = 429

\* the permission class as section 4.4 words it
PermissionClass(error) ==
    \/ error.status = 403
    \/ error.code = "403"
    \/ \E needle \in {Needle_PermissionDenied, Needle_AccessDenied, Needle_Forbidden,
                      Needle_Insufficient} :
          Includes(ToLowerCase(error.message), needle)

IsCall(e) == e.kind = "call"
IsSleep(e) == e.kind = "sleep"
CallsOf(r) == SelectSeq(r.events, IsCall)
SleepsOf(r) == SelectSeq(r.events, IsSleep)
FailedCallAt(r, i) == r.events[i].kind = "call" /\ ~r.events[i].ok

\* C2: when every attempt failed with a retryable error, execute has invoked
\* the operation exactly maxAttempts times when it throws, and what it throws
\* is the error of the last invocation itself, not a wrapper and not a
\* missing error; the operation is never invoked more than maxAttempts times.
C2_ExhaustionRethrowsOriginal ==
    LET calls == CallsOf(retry)
    IN  /\ Len(calls) <= retry.maxAttempts
        /\ ( /\ retry.status = "thrown"
             /\ \A i \in 1..Len(calls) : ~calls[i].ok /\ TransportClass(calls[i].error) )
           => /\ Len(calls) = retry.maxAttempts
              /\ retry.thrown = calls[Len(calls)].error
              /\ retry.thrown.id = retry.maxAttempts
              /\ ~retry.thrown.wrapped
              /\ retry.thrown # NoError

C2_Witness ==
    /\ retry.status = "thrown"
    /\ retry.maxAttempts = 3
    /\ Len(CallsOf(retry)) = 3
    /\ \A i \in 1..3 : TransportClass(CallsOf(retry)[i].error)
    /\ retry.thrown.id = 3

\* C3: a failed invocation whose error the retry predicate rejects is the
\* last thing execute does: no sleep and no invocation follows it, and the
\* error thrown is that error, on whatever attempt it happened.
C3_RejectedErrorRethrownAtOnce ==
    \A i \in 1..Len(retry.events) :
        (FailedCallAt(retry, i) /\ ~TransportClass(retry.events[i].error))
        => /\ i = Len(retry.events)
           /\ retry.status = "thrown"
           /\ retry.thrown = retry.events[i].error

C3_Witness ==
    /\ retry.status = "thrown"
    /\ retry.maxAttempts = 3
    /\ Len(retry.events) = 3
    /\ retry.events[2].kind = "sleep"
    /\ FailedCallAt(retry, 3)
    /\ retry.events[3].error.status = 404

\* what fallbackToLocalMarkdown returns for the client's configuration and
\* the local files
FallbackResult == FallbackToLocalMarkdown(doc, fs).result

\* C4, as claimed: every permission-class failure of the fetch is the last
\* thing the fetch does (attempted once, no sleep), and readDocument returns
\* the fallback's result.
C4_PermissionFailureNeverRetried ==
    doc.command = "readDocument" =>
        \A i \in 1..Len(retry.events) :
            (FailedCallAt(retry, i) /\ PermissionClass(retry.events[i].error))
            => /\ i = Len(retry.events)
               /\ doc.pc = "done"
               /\ doc.result = FallbackResult

\* C4, amended: a permission-class failure outside the retryable class (a
\* plain 403) is not retried -- no sleep and no invocation follows it -- and
\* readDocument returns the fallback's result; a permission-class failure
\* that is also retryable (a 5xx or a timeout whose message reads as a denial)
\* is slept on and retried while attempts remain; whenever the error that
\* execute finally throws is permission-class, the result is the fallback's.
C4_NonRetryablePermissionFailureFallsBack ==
    doc.command = "readDocument" =>
        /\ \A i \in 1..Len(retry.events) :
              LET e == retry.events[i]
              IN  /\ (FailedCallAt(retry, i) /\ PermissionClass(e.error)
                        /\ ~TransportClass(e.error))
                     => /\ i = Len(retry.events)
                        /\ retry.status = "thrown"
                        /\ retry.thrown = e.error
                        /\ doc.pc = "done"
                        /\ doc.fallbackRuns = 1
                        /\ doc.result = FallbackResult
                  /\ (FailedCallAt(retry, i) /\ PermissionClass(e.error)
                        /\ TransportClass(e.error) /\ e.attempt < retry.maxAttempts)
                     => /\ i < Len(retry.events)
                        /\ retry.events[i + 1].kind = "sleep"
        /\ (retry.status = "thrown" /\ PermissionClass(retry.thrown))
           => /\ doc.pc = "done"
              /\ doc.fallbackRuns = 1
              /\ doc.result = FallbackResult

C4_Witness ==
    /\ doc.command = "readDocument"
    /\ doc.pc = "done"
    /\ Len(retry.events) = 1
    /\ retry.events[1].error.status = 403
    /\ doc.fallbackRuns = 1
    /\ doc.result.success

LocatorRan == doc.fallbackRuns > 0 \/ doc.scans > 0 \/ doc.reads # <<>>

\* C5, as claimed: the locator runs only after a fetch has failed with a
\* permission-class error.
C5_LocatorOnlyAfterPermissionFailure ==
    LocatorRan => (retry.status = "thrown" /\ PermissionClass(retry.thrown))

\* C5, amended: inside readDocument the locator runs only after the fetch has
\* failed with a permission-class error (never after a successful fetch, a
\* failure of another class, or a failed initialisation); the markdown:read
\* command runs the locator directly, with no fetch attempted at all.
C5_LocatorOnlyAfterPermissionFailureInReadDocument ==
    /\ (doc.command = "readDocument" /\ LocatorRan)
       => (retry.status = "thrown" /\ PermissionClass(retry.thrown))
    /\ (doc.command = "markdown:read" /\ doc.pc = "done")
       => (doc.fallbackRuns = 1 /\ retry.events = <<>>)

C5_Witness ==
    /\ doc.command = "readDocument"
    /\ doc.pc = "done"
    /\ retry.status = "thrown"
    /\ ~PermissionClass(retry.thrown)
    /\ FindMarkdownFiles(fs) # <<>>
    /\ ~LocatorRan

\* the first line of a text
FirstLine(s) == Slice(s, 1, LineEnd(s, 1))

\* C6: the Content Normalizer is idempotent -- normalizing the output of a
\* read again, with the same normalizer and the same title, returns that
\* output unchanged, for remote documents and for local files
C6_NormalizerIdempotent ==
    norm.stage = "twice" => norm.again = norm.data.normalizedText

\* C7: the normalizedText of every successful read, remote or local, has as
\* its first line exactly '# ' followed by the returned title
C7_FirstLineIsTitleHeading ==
    norm.stage \in {"read", "twice"} =>
        FirstLine(norm.data.normalizedText) = TitleHeading(norm.data.title)

\* the StructuredCard invariant of a card as the service wrote it
WrittenValid(card) == Len(card.summary) <= SummaryMax /\ Len(card.criteria) >= 1
SummaryFits(card) == Len(card.summary) <= SummaryMax

\* the cards of a batch as generateBDDCards would return them
CardsOf(batch) == [i \in 1..Len(batch) |-> CardOf(batch[i])]

\* the reply as the service wrote it, once the call is over
Written == reply[1]
AnsweredWithArray == gen.pc = "done" /\ reply # <<>>

\* C1: when the reply parses to an array of cards of which one has a summary
\* longer than 80 characters, generateBDDCards still succeeds and returns the
\* remaining, valid cards
C1_InvalidCardDoesNotFailBatch ==
    ( /\ AnsweredWithArray
      /\ Written.quotedKeys /\ ~Written.trailing
      /\ \E i \in 1..Len(Written.batch) : ~SummaryFits(Written.batch[i]) )
    => /\ gen.result.success
       /\ gen.result.data = CardsOf(SelectSeq(Written.batch, WrittenValid))

\* C8: when the strict parse of the candidate fails and the parse of the
\* repaired text fails too, the failure result carries both the candidate and
\* the repaired text
C8_ParseFailureCarriesBothTexts ==
    (gen.pc = "done" /\ gen.repairs = 1 /\ ~gen.result.success)
    => /\ Includes(gen.result.error.text, gen.candidate)
       /\ Includes(gen.result.error.text, gen.repaired)

\* C9: every card in the data of a successful result has a summary of at most
\* 80 characters and at least one acceptance criterion
C9_SuccessfulCardsSatisfyInvariant ==
    (gen.pc = "done" /\ gen.result.success)
    => \A i \in 1..Len(gen.result.data) :
          /\ Len(Member(gen.result.data[i], K_summary).s) <= SummaryMax
          /\ Len(Member(gen.result.data[i], K_acceptanceCriteria).items) >= 1

\* C10: a reply whose json fence holds a card array that is valid JSON but for
\* unquoted keys and trailing commas is recovered: the call succeeds and
\* returns exactly the cards of the array
C10_UnquotedKeysAndTrailingCommasRecovered ==
    ( /\ AnsweredWithArray
      /\ Written.wrapper = "json fence"
      /\ \A i \in 1..Len(Written.batch) : SummaryFits(Written.batch[i]) )
    => /\ gen.result.success
       /\ gen.result.data = CardsOf(Written.batch)

\* the attempt the computed delay precedes
NextAttempt == backoff.attempt + 1

\* C11 as stated: the delay slept before attempt k >= 2 after a retried
\* failure lies in [2^(k-2)*1000, 1.1 * min(2^(k-2)*1000, 10000)]
C11_DelayWithinStatedInterval ==
    backoff.stage = "slept" =>
        /\ Pow(2, NextAttempt - 2) * 1000 <= backoff.slept
        /\ backoff.slept * 10 <= 11 * Min(Pow(2, NextAttempt - 2) * 1000, 10000)

\* C11 amended: when the retried failure carries no Retry-After value, the
\* delay slept before attempt k >= 2 lies in
\* [min(2^(k-2)*1000, 10000), 1.1 * min(2^(k-2)*1000, 10000)]
C11_DelayWithinCappedInterval ==
    (backoff.stage = "slept" /\ backoff.error.retryAfter = <<>>) =>
        /\ Min(Pow(2, NextAttempt - 2) * 1000, 10000) <= backoff.slept
        /\ backoff.slept * 10 <= 11 * Min(Pow(2, NextAttempt - 2) * 1000, 10000)

\* a delay slept before attempt 6 with no Retry-After value and the largest
\* jitter: the cap, 10000 ms, plus 999 ms
C11_Witness ==
    /\ backoff.stage = "slept"
    /\ backoff.error.retryAfter = <<>>
    /\ NextAttempt = 6
    /\ backoff.draw = 999
    /\ backoff.slept = 10999

\* the delay + jitter of the failure whose delay was computed
TotalDelayOf(b) == BackoffDelay(b.attempt) + Jitter(BackoffDelay(b.attempt), b.draw)

\* C12: when the retried failure carries a Retry-After value, the sleep
\* before the next attempt is never shorter than the jittered backoff delay,
\* and never shorter than the seconds the value asks for when it is a number
\* of seconds
C12_SleepAtLeastBackoffAndRetryAfter ==
    (backoff.stage = "slept" /\ backoff.error.retryAfter # <<>>) =>
        /\ backoff.slept >= TotalDelayOf(backoff)
        /\ ~ParseInt(backoff.error.retryAfter).nan =>
               backoff.slept >= ParseInt(backoff.error.retryAfter).v * 1000

\* the failed invocation at event i was retried: a sleep follows it
RetriedAt(r, i) == i < Len(r.events) /\ r.events[i + 1].kind = "sleep"

\* error.code and error.response?.status as the predicate reads them, over
\* every HTTP status and the codes a failure can carry
ProbeCodes == {"", "ECONNRESET", "ETIMEDOUT", "ENOTFOUND", "ECONNREFUSED", "ERR_BAD_REQUEST", "403"}
ProbeError(code, status) ==
    [id |-> 1, code |-> code, status |-> status, retryAfter |-> <<>>,
     message |-> <<>>, wrapped |-> FALSE]

\* C13: a failed invocation that is not the last allowed attempt is retried
\* if and only if its error is a connection reset or timeout, an HTTP 5xx or
\* an HTTP 429; any other failure (400, 401, 403, 404, no code and no
\* response) is never retried, on whatever attempt; and the default predicate
\* accepts exactly that class over every code and status
C13_RetriedIffTransportClass ==
    /\ \A i \in 1..Len(retry.events) :
          FailedCallAt(retry, i) =>
            /\ retry.events[i].attempt < retry.maxAttempts
                 => (RetriedAt(retry, i) <=> TransportClass(retry.events[i].error))
            /\ ~TransportClass(retry.events[i].error) => ~RetriedAt(retry, i)
    /\ \A code \in ProbeCodes, status \in {0} \cup 100..599 :
          RetryCondition(ProbeError(code, status)) <=> TransportClass(ProbeError(code, status))

\* a 429 at attempt 1 of 3 that was slept on and retried, then a failure
\* with no code and no response at attempt 2 that was thrown at once
C13_Witness ==
    /\ retry.maxAttempts = DefaultMaxAttempts
    /\ Len(retry.events) = 3
    /\ FailedCallAt(retry, 1) /\ retry.events[1].error.status = 429
    /\ RetriedAt(retry, 1)
    /\ FailedCallAt(retry, 3)
    /\ retry.events[3].error.status = 0 /\ retry.events[3].error.code = ""
    /\ retry.status = "thrown"

\* the events of one kind in the log of a batch
IsRequest(e) == e.kind = "request"
IsResponse(e) == e.kind = "response"
IsDelay(e) == e.kind = "delay"

\* the create requests sent and not yet settled
InFlight(log) == Len(SelectSeq(log, IsRequest)) - Len(SelectSeq(log, IsResponse))

\* log[p] is the first create request of its item
FirstRequestAt(log, p) ==
    /\ log[p].kind = "request"
    /\ p = 1 \/ log[p - 1].item # log[p].item

\* C14: at no time are two create requests in flight; the first request of
\* item i+1 comes directly after the 500 ms timer that was started when the
\* last request of item i (retries included) had settled, and nothing of
\* item i happens after it; every delay is 500 ms and none follows the last
\* item: the batch returns at the settlement of its last request
C14_BatchStrictlySequential ==
    LET log == jira.log
    IN  /\ InFlight(log) \in {0, 1}
        /\ \A p \in 1..Len(log) :
              /\ (FirstRequestAt(log, p) /\ log[p].item > 1) =>
                    /\ p >= 4
                    /\ log[p - 1] = LogEvent("resume", log[p].item - 1, 0)
                    /\ log[p - 2] = LogEvent("delay", log[p].item - 1, 500)
                    /\ log[p - 3] = LogEvent("response", log[p].item - 1, 0)
              /\ (FirstRequestAt(log, p) /\ log[p].item = 1) => p = 1
              /\ (log[p].kind = "request" /\ ~FirstRequestAt(log, p)) =>
                    log[p - 1] = LogEvent("response", log[p].item, 0)
              /\ \A q \in p..Len(log) : log[q].item >= log[p].item
              /\ IsDelay(log[p]) => log[p].ms = 500 /\ log[p].item < jira.issues
        /\ (jira.pc = "returned" /\ jira.issues > 0) =>
              log[Len(log)] = LogEvent("response", jira.issues, 0)
        /\ jira.pc = "delaying" => InFlight(log) = 0

\* a returned batch of three items, the first created at its second attempt,
\* with a delay after items 1 and 2
C14_Witness ==
    /\ jira.pc = "returned"
    /\ jira.issues = 3
    /\ Len(SelectSeq(jira.log, IsDelay)) = 2
    /\ jira.log[3] = LogEvent("request", 1, 0)
    /\ jira.log[5] = LogEvent("delay", 1, 500)
    /\ jira.log[7] = LogEvent("request", 2, 0)

\* the items whose first create request the log holds, in the order sent
RECURSIVE AttemptedItems(_, _)
AttemptedItems(log, p) ==
    IF p > Len(log) THEN <<>>
    ELSE IF FirstRequestAt(log, p) THEN <<log[p].item>> \o AttemptedItems(log, p + 1)
    ELSE AttemptedItems(log, p + 1)

\* C15: when createBatchIssues returns, every item was attempted, in input
\* order, whatever failed before it; each item is either among the created
\* issues or among the recorded failures, so their numbers add up to the
\* number of items; success is true exactly when an issue was created, and
\* the error summary counts the failures ('N issues failed') when there are
\* any
C15_FailingItemNeverAbortsBatch ==
    jira.pc = "returned" =>
        /\ AttemptedItems(jira.log, 1) = [k \in 1..jira.issues |-> k]
        /\ Len(jira.results) + Len(jira.errors) = jira.issues
        /\ \A k \in 1..jira.issues :
              (\E x \in 1..Len(jira.results) : jira.results[x] = k)
                  # (\E x \in 1..Len(jira.errors) : jira.errors[x] = k)
        /\ jira.result.success = (Len(jira.results) >= 1)
        /\ jira.result.data = jira.results
        /\ jira.result.error = (IF jira.errors = <<>> THEN 0 ELSE Len(jira.errors))
        /\ (jira.issues = 0 \/ Len(jira.errors) = jira.issues) => ~jira.result.success

\* a partial success: of three items the second failed and the two others
\* were created
C15_Witness ==
    /\ jira.pc = "returned"
    /\ jira.issues = 3
    /\ jira.results = <<1, 3>>
    /\ jira.errors = <<2>>
    /\ jira.result.success
    /\ jira.result.error = 1

\* the stage order of the workflow command as the claim gives it
WorkflowOrder ==
    <<"readDocument", "generateBDDCards", "findUser", "discoverRequiredFields",
      "createBatchIssues">>

\* the stages that only read from their remote service
ReadStages == {"readDocument", "generateBDDCards", "findUser", "discoverRequiredFields"}

InvokedStages == { cli.stages[k] : k \in 1..Len(cli.stages) }

\* C16: in the workflow command the stages invoked are a prefix of read
\* document, generate cards, find user, discover required fields, create
\* issues; a stage is invoked only after every stage before it returned
\* success; and once a stage has returned failure it is the last stage
\* invoked and the process has exited with a non-zero code
C16_WorkflowOrderAndAbort ==
    cli.command = "workflow" =>
        /\ Len(cli.stages) <= Len(WorkflowOrder)
        /\ \A k \in 1..Len(cli.stages) : cli.stages[k] = WorkflowOrder[k]
        /\ Len(cli.results) <= Len(cli.stages) /\ Len(cli.stages) <= Len(cli.results) + 1
        /\ \A k \in 1..Len(cli.results) :
              /\ k < Len(cli.stages) => cli.results[k]
              /\ ~cli.results[k] =>
                    /\ k = Len(cli.stages)
                    /\ cli.pc = "exited"
                    /\ cli.exitCode # 0

\* a workflow whose third stage, find user, failed: no fourth stage, exit 1
C16_Witness ==
    /\ cli.command = "workflow"
    /\ cli.stages = <<"readDocument", "generateBDDCards", "findUser">>
    /\ cli.results = <<TRUE, TRUE, FALSE>>
    /\ cli.pc = "exited"
    /\ cli.exitCode = 1

\* C17: when the configured mode is dry-run (APP_MODE is dry-run or not
\* set), none of the three commands invokes createBatchIssues or
\* createExampleIssue (the only callers of createIssue), so no issue-creation
\* request is sent
C17_DryRunNeverCreates ==
    cli.appMode # "live" =>
        /\ InvokedStages \cap CreationStages = {}
        /\ cli.requests \cap CreationStages = {}

\* a dry-run workflow that ran all four reading stages and returned
C17_Witness ==
    /\ cli.command = "workflow"
    /\ cli.appMode = "dry-run"
    /\ cli.mode = "dry-run"
    /\ cli.pc = "exited"
    /\ cli.exitCode = 0
    /\ cli.stages = <<"readDocument", "generateBDDCards", "findUser", "discoverRequiredFields">>
    /\ cli.results = <<TRUE, TRUE, TRUE, TRUE>>

C19_FlagsOverrideConfiguredMode ==
    ( /\ cli.command = "workflow"
      /\ cli.pc = "exited"
      /\ Len(cli.results) >= 4
      /\ \A k \in 1..4 : cli.results[k] )
    => /\ (cli.live /\ ~cli.dryRun) => "createBatchIssues" \in InvokedStages
       /\ (cli.dryRun /\ ~cli.live) => "createBatchIssues" \notin InvokedStages

\* a markdown candidate in scope: a file some search path that exists collects
InScope(f) ==
    \E k \in 1..Len(SearchPaths) :
        DirExists(fs, SearchPaths[k]) /\ Collected(f, SearchPaths[k])

\* the locator searched (no usable explicit path) and selected a file
LocatorSelected == doc.pc = "done" /\ doc.scans > 0 /\ doc.reads # <<>>

SelectedFile == FileAt(fs, doc.reads[Len(doc.reads)])

\* C20: when the locator searches because no usable explicit path is given,
\* the file it selects is a candidate in scope and no candidate in scope is
\* newer: a candidate older than another candidate is never selected
C20_NewestCandidateSelected ==
    LocatorSelected =>
        /\ InScope(SelectedFile)
        /\ \A i \in 1..Len(fs) : InScope(fs[i]) => fs[i].mtime <= SelectedFile.mtime

\* the search selected docs/s.MD (mtime 2) although the older n.md (mtime 1)
\* comes first in the listing, and the newer node_modules/v.md is no candidate
C20_Witness ==
    /\ LocatorSelected
    /\ fs = FilePool
    /\ SelectedFile = File_spec
    /\ InScope(File_notes) /\ File_notes.mtime < SelectedFile.mtime
    /\ ~InScope(File_vendor)

\* the configured localMarkdownPath names a file of the file system
ExplicitPathUsable ==
    /\ doc.localMarkdownPath # <<>>
    /\ \E i \in 1..Len(fs) : PathOf(fs[i]) = doc.localMarkdownPath[1]

\* fallbackToLocalMarkdown has run to its end
LocatorDone == doc.pc = "done" /\ doc.fallbackRuns > 0

\* C21: when the configured path exists the locator reads that file and scans
\* no directory, whatever newer markdown files there are; it scans exactly
\* when no path is configured or the configured one does not exist; and it
\* reports that no local markdown file was found exactly when it scanned and
\* the scan collected no candidate
C21_ExplicitPathShortCircuitsScan ==
    LocatorDone =>
        /\ ExplicitPathUsable =>
              /\ doc.scans = 0
              /\ doc.reads = <<doc.localMarkdownPath[1]>>
              /\ doc.result.success
        /\ (doc.scans > 0) <=> ~ExplicitPathUsable
        /\ doc.scans <= 1
        /\ (doc.result = Failure(Msg_NoLocalFiles))
              <=> (doc.scans > 0 /\ \A i \in 1..Len(fs) : ~InScope(fs[i]))

\* the configured n.md (mtime 1) was read without a scan although the newer
\* docs/s.MD and .cache/l.md are candidates
C21_Witness ==
    /\ LocatorDone
    /\ fs = FilePool
    /\ doc.localMarkdownPath = <<PathOf(File_notes)>>
    /\ doc.scans = 0
    /\ doc.reads = <<PathOf(File_notes)>>
    /\ InScope(File_spec) /\ File_spec.mtime > File_notes.mtime

\* a directory name that is hidden or a dependency directory
HiddenOrVendor(name) == name[1] = "." \/ name = Dir_node_modules

\* C22 as stated: no collected file lies under a directory whose name starts
\* with '.' or under node_modules, and every collected file has the markdown
\* extension
C22_NoCandidateUnderHiddenOrVendor ==
    pure.stage = "scanned" =>
        \A k \in 1..Len(pure.output) :
            /\ \A i \in 1..Len(pure.output[k].dir) : ~HiddenOrVendor(pure.output[k].dir[i])
            /\ EndsWith(ToLowerCase(pure.output[k].name), Ext_md)

\* C22 amended: every collected file has the markdown extension and lies
\* under no node_modules directory; the only hidden directory on its path is
\* the search root .cache itself
C22_NoCandidateUnderSkippedDirectory ==
    pure.stage = "scanned" =>
        \A k \in 1..Len(pure.output) :
            /\ \A i \in 1..Len(pure.output[k].dir) :
                  /\ pure.output[k].dir[i] # Dir_node_modules
                  /\ pure.output[k].dir[i][1] = "." =>
                        (i = 1 /\ pure.output[k].dir[1] = Dir_cache)
            /\ EndsWith(ToLowerCase(pure.output[k].name), Ext_md)

\* a scan of all eight files: .cache/l.md and docs/s.MD are collected, the
\* files under .git, docs/.obsidian, node_modules and .cache/node_modules and
\* the .txt file are not
C22_Witness ==
    /\ pure.stage = "scanned"
    /\ pure.input = ScanPool
    /\ Range(pure.output) = {File_notes, File_spec, File_cached}

\* the number of line feeds in a text
LineFeeds(s) == Cardinality({ i \in 1..Len(s) : s[i] = "\n" })

\* the text of a list of text runs
RECURSIVE RunsText(_)
RunsText(runs) ==
    IF runs = <<>> THEN <<>> ELSE Head(runs).textRun.content \o RunsText(Tail(runs))

\* C23: a flattened table is one line per table row, each starting with
\* '| ' and ending with ' |', followed by one blank line: it holds as many
\* line feeds as the table has rows, plus one, whatever its cells contain
C23_OneLinePerTableRow ==
    (pure.stage = "walked" /\ Has(pure.input, "table")) =>
        LET rows == pure.input.table.tableRows
            out == pure.output
        IN  /\ LineFeeds(out) = Len(rows) + 1
            /\ Slice(out, 1, 2) = <<"|", " ">>
            /\ Slice(out, Len(out) - 3, Len(out)) = <<" ", "|", "\n", "\n">>

\* the heading level a paragraph style indicates, 0 when it indicates none
LevelOf(style) ==
    IF \E n \in 1..MaxHeading : style = Style_Heading(n)
    THEN CHOOSE n \in 1..MaxHeading : style = Style_Heading(n)
    ELSE 0

\* C24: a flattened paragraph whose style indicates heading level n and whose
\* children flatten to t is n '#' characters, one space, t and a line feed; a
\* paragraph of no heading style is t and a line feed; and a bulleted
\* paragraph has '- ' in front of that
C24_HeadingAndBulletPrefix ==
    (pure.stage = "walked" /\ Has(pure.input, "paragraph")) =>
        LET paragraph == pure.input.paragraph
            n == LevelOf(paragraph.namedStyleType)
            t == RunsText(paragraph.elements)
            line == (IF n > 0 THEN [i \in 1..n |-> "#"] \o <<" ">> ELSE <<>>) \o t \o <<"\n">>
        IN  pure.output = (IF paragraph.bullet THEN <<"-", " ">> ELSE <<>>) \o line

\* heading level 2 with the text 'Overview' gives '## Overview' and a line feed
C24_Witness ==
    /\ pure.stage = "walked"
    /\ pure.input = Paragraph(<<TextRun(Txt_Overview)>>, Style_Heading(2), FALSE)
    /\ pure.output = <<"#", "#", " ">> \o Txt_Overview \o <<"\n">>

Last(s) == s[Len(s)]
IsTrue(b) == b

C29_FailedGenerationWritesNothing ==
    [][ /\ (gen' # gen /\ ~gen'.result.success) => gen'.cache = gen.cache
        /\ gen'.cache # gen.cache =>
              /\ gen'.result.success
              /\ gen'.cache.rawLatest = gen'.content
              /\ gen'.cache.cardsLatest = gen'.result.data ]_vars

\* a successful generation followed by one whose reply holds no array: the
\* latest files still hold the first run's reply, not 'Sorry'
C29_Witness ==
    /\ pure.stage = "runs"
    /\ pure.output = <<TRUE, FALSE>>
    /\ ~gen.result.success
    /\ gen.content = Txt_Sorry
    /\ Len(gen.cache.snapshots) = 1
    /\ gen.cache.rawLatest = gen.cache.snapshots[1].raw
    /\ gen.cache.rawLatest # gen.content

\* the first block of a reply that satisfies a test, as <<block>>, or <<>>
FirstFenced(blocks, tags) ==
    LET hits == { k \in 1..Len(blocks) : blocks[k].fenced /\ blocks[k].tag \in tags }
    IN  IF hits = {} THEN <<>> ELSE <<blocks[MinOf(hits)]>>

\* C26: the candidate is the content of the first fenced block tagged json
\* when the reply has one, otherwise the content of the first fenced block
\* of any tag when it has one, otherwise the whole reply
C26_CandidatePrecedence ==
    pure.stage = "extracted" =>
        LET tagged == FirstFenced(pure.input, {Tag_json})
            any == FirstFenced(pure.input, {Tag_json, Tag_js, Tag_none})
        IN  pure.output = IF tagged # <<>> THEN tagged[1].body
                          ELSE IF any # <<>> THEN any[1].body
                          ELSE RenderBlocks(pure.input)

\* a generateBDDCards call that reached the parse of its candidate is over
CandidateParsed == gen.pc = "done" /\ gen.strictParses >= 1

\* C27 as stated: a candidate that is valid JSON is parsed once and the
\* repair is never applied to it
C27_ValidJsonNeverRepaired ==
    (CandidateParsed /\ JsonParse(gen.candidate).ok) =>
        /\ gen.repairs = 0
        /\ gen.strictParses = 1

\* C27: the repair runs at most once per reply and only after the parse and
\* validation of the candidate failed; a candidate that parses and validates
\* is returned as it is, never repaired; after the re-parse of the repaired
\* text, failed or not, nothing more is repaired or parsed
C27_RepairOnlyAfterFailedParseAndOnce ==
    CandidateParsed =>
        LET first == StrictParse(gen.candidate)
        IN  /\ gen.repairs <= 1
            /\ gen.strictParses = gen.repairs + 1
            /\ first.ok => /\ gen.repairs = 0
                           /\ gen.result = GenSuccess(first.cards)
            /\ gen.repairs = 1 => /\ ~first.ok
                                  /\ gen.repaired = AttemptJsonFix(gen.candidate)
            /\ (gen.repairs = 1 /\ ~StrictParse(gen.repaired).ok) => ~gen.result.success

\* a repaired text failed its re-parse and the call ended there
C27_Witness ==
    /\ CandidateParsed
    /\ gen.repairs = 1
    /\ gen.strictParses = 2
    /\ ~gen.result.success

\* execute has returned or thrown
ExecuteOver == retry.status \in {"returned", "thrown"}

\* the invocations of the operation in the run so far
Invocations == { k \in 1..Len(retry.events) : retry.events[k].kind = "call" }

\* invocations and sleeps take turns: invocation j is event 2j-1 and the sleep
\* after it event 2j; a sleep follows a failed invocation with a retryable
\* error that was not the last one allowed; an invocation is in flight only
\* when the last sleep is over, and nothing is in flight during a sleep
AttemptsAndSleepsAlternate ==
    LET events == retry.events
        n == Len(events)
    IN  /\ \A k \in 1..n :
              /\ events[k].kind = (IF k % 2 = 1 THEN "call" ELSE "sleep")
              /\ events[k].attempt = (k + 1) \div 2
              /\ events[k].kind = "sleep" =>
                    /\ ~events[k - 1].ok
                    /\ RetryCondition(events[k - 1].error)
                    /\ events[k].attempt < retry.maxAttempts
              /\ (events[k].kind = "call" /\ events[k].ok) => k = n
        /\ Cardinality(Invocations) <= retry.maxAttempts
        /\ retry.status = "calling" => (n % 2 = 0 /\ retry.attempt = n \div 2 + 1)
        /\ retry.status = "sleeping" => (n > 0 /\ events[n].kind = "sleep")
        /\ ExecuteOver => (n > 0 /\ events[n].kind = "call")

\* C28: in every run of execute the attempts and sleeps alternate strictly
\* (attempt k+1 starts only after attempt k failed with a retryable error and
\* its sleep is over, no sleep follows a success or the final attempt, at most
\* maxAttempts invocations), and execute ends when every invocation and sleep
\* ends
C28_AttemptsAndSleepsAlternateAndExecuteEnds ==
    /\ []AttemptsAndSleepsAlternate
    /\ <>ExecuteOver

\* a run that ended after a second attempt, made after a sleep
C28_Witness ==
    /\ ExecuteOver
    /\ Len(retry.events) >= 3
    /\ retry.events[2].kind = "sleep"
    /\ retry.events[3].kind = "call"

\* the issues that exist on the server for one card of the batch
IssuesOfCard(item) == { k \in 1..Len(jira.server) : jira.server[k] = item }

\* C30: createBatchIssues creates at most one Jira issue per input card, also
\* when a create request is sent again after a timeout or a server error that
\* the server may have answered after creating the issue
C30_AtMostOneIssuePerCard ==
    \A item \in 1..jira.issues : Cardinality(IssuesOfCard(item)) <= 1

====
